---- MODULE Spec2Model ----
(***************************************************************************)
(* Model of the NextDNS profile tools' core library: the list sync        *)
(* (core/sync-lists.ts), the profile diff's entry (core/diff-profiles.ts), *)
(* the domain manager (core/manage-domain.ts) and the profile clone       *)
(* pipeline (core/copy-profile.ts).                                       *)
(*                                                                         *)
(* A JavaScript object used as a map (Record<string, T>) is a sequence of  *)
(* records with distinct ids, in insertion order, which is the order       *)
(* Object.entries and Object.values enumerate for non-numeric keys.        *)
(* An error message is a sequence of tokens; String.includes is a search   *)
(* for a contiguous run of tokens and toLowerCase maps token by token.     *)
(***************************************************************************)
EXTENDS Integers, Sequences, FiniteSets, TLC

\* ------------------------------------------------------------------ bounds
MaxProfiles == 3
MaxDomains == 2
MaxEntries == 3
\* list entries and vendor failures in the runs that include failures
MaxFaultyEntries == 2
MaxFaults == 3
\* rewrites of the source profile in the cloner's runs
MaxRewrites == 2
MaxClicks == 4

ProfileIds == 1..MaxProfiles
Domains == 1..MaxDomains
ListTypeSet == {"denylist", "allowlist"}
SyncTargets == {"both", "denylist", "allowlist"}
Undefined == "undefined"

\* ------------------------------------------------------- generic helpers
Range(s) == {s[i] : i \in 1..Len(s)}

\* position of the entry with id d in an ordered map, 0 when absent
IndexOfId(m, d) ==
  IF \E i \in 1..Len(m) : m[i].id = d
  THEN CHOOSE i \in 1..Len(m) : m[i].id = d /\ \A j \in 1..(i - 1) : m[j].id # d
  ELSE 0

HasId(m, d) == IndexOfId(m, d) # 0

\* m[d] of a JavaScript object: the stored value, or undefined
GetActive(m, d) == IF HasId(m, d) THEN m[IndexOfId(m, d)].active ELSE Undefined

\* Object.fromEntries(list.map(d => [d.id, d.active])): a repeated id keeps
\* its first position and takes the last value
RECURSIVE FromEntries(_, _)
FromEntries(list, acc) ==
  IF list = <<>> THEN acc
  ELSE LET e == Head(list)
           i == IndexOfId(acc, e.id)
       IN FromEntries(Tail(list),
            IF i = 0 THEN Append(acc, [id |-> e.id, active |-> e.active])
            ELSE [acc EXCEPT ![i].active = e.active])

\* ------------------------------------------------------- error messages
RateLimitMsg == <<"rateLimit">>
InvalidMsg == <<"invalid">>
SyncFaults == {RateLimitMsg, InvalidMsg}
\* a call that succeeded, and the absence of a call or of an error
Ok == <<"ok">>
NoOutcome == <<>>
NoError == <<>>
ListFailedMsg == <<"getProfiles failed">>
FetchFailedMsg == <<"getProfile failed">>
NoneFoundMsg == <<"None of the specified profiles found">>
TooFewMsg(purpose) == <<"Need at least 2 profiles", purpose>>
NoCall == [op |-> 0, outcome |-> NoOutcome]

\* String.prototype.includes over token sequences
Includes(msg, needle) ==
  \E i \in 1..(Len(msg) - Len(needle) + 1) :
    \A j \in 1..Len(needle) : msg[i + j - 1] = needle[j]

\* String.prototype.toLowerCase, token by token
LowerToken(t) ==
  IF t \in {"Not Found", "NOT FOUND", "Not found"} THEN "not found"
  ELSE IF t = "Request failed" THEN "request failed"
  ELSE IF t = "notFound" THEN "notfound"
  ELSE IF t = "Server error" THEN "server error"
  ELSE t
toLowerCase(msg) == [i \in 1..Len(msg) |-> LowerToken(msg[i])]

ManageFaults ==
  {<<"404", "Not Found">>, <<"Domain", "Not Found">>, <<"notFound">>, <<"500", "Server error">>}
NoProfilesMsg == <<"No profiles found">>
AlreadyRemovedMsg == <<"not found (already removed)">>
NotFoundMsg == <<"not found">>

\* the answers the vendor can give to a call while n failures remain
Answers(n, failures) == {Ok} \cup (IF n > 0 THEN failures ELSE {})
Spend(n, outcome) == IF outcome = Ok THEN n ELSE n - 1

\* ------------------------------------------------------------- variables
VARIABLES
  liveProfiles,   \* the account's profiles as the vendor lists them
  lists,          \* lists[p][lt]: the vendor's denylist / allowlist of profile p
  cmd,            \* the core operation running: none, sync, diff, manage, copy
  opts,           \* its options
  pc,             \* its position
  thrown,         \* the error it threw, or none
  profiles,       \* the resolved profiles
  fetchIdx,       \* next profile to fetch
  allData,        \* Record<profileId, ProfileListData>
  analysis,       \* SyncAnalysis
  operations,     \* executeSync's operation list
  opIdx,          \* executeSync's loop index i, 1-based
  attempt,        \* rateLimitedRequest's attempt counter
  results,        \* result records
  counters,       \* addSuccess, addFail, updateSuccess, updateFail
  progress,       \* onProgress invocations
  calls,          \* remote calls issued: list, fetch, write
  attemptsMade,   \* remote calls issued per operation
  lastCall,       \* the latest write call: its operation's index and its outcome
  paused,         \* a sleep() completed since the latest remote call
  edits,          \* entries the account's owner may still add before the run
  faults,         \* failures the vendor may still answer with
  source,         \* the source profile as the vendor holds it: the keys of each section
  srcRewrites,    \* the source profile's rewrites
  dest,           \* the destination profile as the vendor holds it
  force,          \* CopyProfileOptions.force
  copyResult,     \* copyProfile's CopyResult
  steps,          \* onStepStart / onStepComplete / onWarning invocations
  copyLog,        \* remote calls copyProfile issued, with the vendor's answers
  rwIdx,          \* copyRewrites' position in the POST fallback loop, 1-based
  rwCount,        \* copyRewrites' count
  rwSent,         \* the bodies of the PUT and POST calls copyRewrites issued
  sourceData,     \* the argument of reconstructPayload: a profile with its values
  payload,        \* the payload reconstructPayload returned
  validation,     \* the warnings validateApiSchema returned
  snapshots,      \* the allData argument of the diff engine, in profile order
  rows,           \* the rows a row generator returned
  tables,         \* the tables generateDiffTables returned
  exitCode,       \* the exit code of the CLI command's process, once it ended
  response,       \* the HTTP response handed to parseApiResponse
  parsed,         \* what parseApiResponse returned or threw for it
  refetched,      \* the source and destination profiles verifyClone fetched
  parentalDiffs,  \* the mismatches verifyClone's parental block pushed
  writtenKeys,    \* the source fields reconstructPayload copied into the payload
  manageForm,     \* the dashboard's ManageDomain component: results, error, isRunning
  auth,           \* the dashboard's AuthProvider state, the client's key and the stored key
  inflight,       \* the requests of the AuthProvider that have not settled yet
  clicks          \* the number of logins, logouts and refreshes so far

syncVars == <<profiles, fetchIdx, allData, analysis, operations, opIdx, attempt,
              results, counters, progress, attemptsMade, lastCall, paused>>
vendorVars == <<liveProfiles, lists, edits>>
copyVars == <<source, srcRewrites, dest, force, copyResult, steps, copyLog, rwIdx, rwCount,
              rwSent>>
pureVars == <<sourceData, payload, validation, snapshots, rows, tables>>
netVars == <<response, parsed>>
verifyVars == <<refetched, parentalDiffs>>
webVars == <<manageForm, auth, inflight, clicks>>
shellVars == <<exitCode, netVars, verifyVars, writtenKeys, webVars>>
vars == <<liveProfiles, lists, edits, faults, cmd, opts, pc, thrown, profiles, fetchIdx,
          allData, analysis, operations, opIdx, attempt, results, counters,
          progress, calls, attemptsMade, lastCall, paused, source, srcRewrites,
          dest, force, copyResult, steps, copyLog, rwIdx, rwCount, rwSent, sourceData,
          payload, validation, snapshots, rows, tables, exitCode, response, parsed,
          refetched, parentalDiffs, writtenKeys, manageForm, auth, inflight, clicks>>

\* ------------------------------------------------------ the vendor's state
EmptyLists == [lt \in ListTypeSet |-> <<>>]

NoCounters == [addSuccess |-> 0, addFail |-> 0, updateSuccess |-> 0, updateFail |-> 0]
NoCalls == [list |-> 0, fetch |-> 0, write |-> 0]
NoAnalysis ==
  [denylist |-> [canonical |-> <<>>, toAdd |-> <<>>, toUpdate |-> <<>>],
   allowlist |-> [canonical |-> <<>>, toAdd |-> <<>>, toUpdate |-> <<>>]]
NoOpts == [profileIds |-> {}, listType |-> "both", dryRun |-> FALSE]

InitVendor ==
  /\ \E n \in 0..MaxProfiles : liveProfiles = [i \in 1..n |-> i]
  /\ lists = [p \in ProfileIds |-> EmptyLists]

NotExited == -1

InitIdle ==
  /\ cmd = "none"
  /\ exitCode = NotExited
  /\ opts = NoOpts
  /\ pc = "idle"
  /\ thrown = NoError
  /\ profiles = <<>>
  /\ fetchIdx = 1
  /\ allData = <<>>
  /\ analysis = NoAnalysis
  /\ operations = <<>>
  /\ opIdx = 1
  /\ attempt = 0
  /\ results = <<>>
  /\ counters = NoCounters
  /\ progress = <<>>
  /\ calls = NoCalls
  /\ attemptsMade = <<>>
  /\ lastCall = NoCall
  /\ paused = FALSE

\* The account's lists before the operation starts: any entries the owner
\* made earlier, each domain at most once per list.
VendorEdit ==
  /\ pc = "idle"
  /\ edits > 0
  /\ edits' = edits - 1
  /\ \E p \in Range(liveProfiles), lt \in ListTypeSet, d \in Domains, a \in BOOLEAN :
       /\ ~HasId(lists[p][lt], d)
       /\ lists' = [lists EXCEPT ![p][lt] = Append(@, [id |-> d, active |-> a])]
  /\ UNCHANGED <<liveProfiles, faults, cmd, opts, pc, thrown, calls>>
  /\ UNCHANGED syncVars
  /\ UNCHANGED copyVars
  /\ UNCHANGED <<pureVars, shellVars>>

\* ----------------------------------------------------- consensus engine
\* ProfileListData of a fetched profile
getProfileListData(p) ==
  [id |-> p,
   denylist |-> FromEntries(lists[p].denylist, <<>>),
   allowlist |-> FromEntries(lists[p].allowlist, <<>>)]

\* the entries getCanonicalDomains visits, in visiting order
RECURSIVE VisitOrder(_, _)
VisitOrder(data, lt) ==
  IF data = <<>> THEN <<>> ELSE Head(data)[lt] \o VisitOrder(Tail(data), lt)

RECURSIVE Tally(_, _)
Tally(entries, domainStates) ==
  IF entries = <<>> THEN domainStates
  ELSE LET e == Head(entries)
           i == IndexOfId(domainStates, e.id)
           st == IF i = 0
                 THEN Append(domainStates, [id |-> e.id, enabled |-> 0, disabled |-> 0])
                 ELSE domainStates
           j == IF i = 0 THEN Len(st) ELSE i
       IN Tally(Tail(entries),
            IF e.active = TRUE
            THEN [st EXCEPT ![j].enabled = @ + 1]
            ELSE [st EXCEPT ![j].disabled = @ + 1])

TieBreak_strict(enabled, disabled) == enabled > disabled

TieBreak(enabled, disabled) == enabled >= disabled

getCanonicalDomains(data, lt) ==
  LET domainStates == Tally(VisitOrder(data, lt), <<>>)
  IN [i \in 1..Len(domainStates) |->
        [id |-> domainStates[i].id,
         active |-> TieBreak(domainStates[i].enabled, domainStates[i].disabled)]]

PlanFor_swapped(pdata, domain, shouldBeActive, lt) ==
  LET present == HasId(pdata[lt], domain)
      currentState == GetActive(pdata[lt], domain)
  IN [type |-> IF ~present THEN "add"
               ELSE IF currentState = shouldBeActive THEN "update"
               ELSE "none",
      profileId |-> pdata.id,
      domain |-> domain,
      shouldBeActive |-> shouldBeActive,
      listType |-> lt]

\* the operation the loop body of calculateSyncOperations pushes, if any
PlanFor(pdata, domain, shouldBeActive, lt) ==
  LET present == HasId(pdata[lt], domain)
      currentState == GetActive(pdata[lt], domain)
  IN [type |-> IF ~present THEN "add"
               ELSE IF currentState # shouldBeActive THEN "update"
               ELSE "none",
      profileId |-> pdata.id,
      domain |-> domain,
      shouldBeActive |-> shouldBeActive,
      listType |-> lt]

IsAdd(op) == op.type = "add"
IsUpdate(op) == op.type = "update"

calculateSyncOperations_stale(data, canonical, lt) ==
  LET n == Len(data)
      visited == [k \in 1..(Len(canonical) * n) |->
                    PlanFor(data[((k - 1) % n) + 1],
                            canonical[((k - 1) \div n) + 1].id,
                            ~canonical[((k - 1) \div n) + 1].active, lt)]
  IN [toAdd |-> SelectSeq(visited, IsAdd), toUpdate |-> SelectSeq(visited, IsUpdate)]

calculateSyncOperations(data, canonical, lt) ==
  LET n == Len(data)
      visited == [k \in 1..(Len(canonical) * n) |->
                    PlanFor(data[((k - 1) % n) + 1],
                            canonical[((k - 1) \div n) + 1].id,
                            canonical[((k - 1) \div n) + 1].active, lt)]
  IN [toAdd |-> SelectSeq(visited, IsAdd), toUpdate |-> SelectSeq(visited, IsUpdate)]

AnalysisOf(data) ==
  [lt \in ListTypeSet |->
     LET canonical == getCanonicalDomains(data, lt)
         ops == calculateSyncOperations(data, canonical, lt)
     IN [canonical |-> canonical, toAdd |-> ops.toAdd, toUpdate |-> ops.toUpdate]]

\* ------------------------------------------------ sync orchestrator: analyze
RECURSIVE FilterProfiles(_, _)
FilterProfiles(all, ids) ==
  IF all = <<>> THEN <<>>
  ELSE (IF Head(all) \in ids THEN <<Head(all)>> ELSE <<>>) \o FilterProfiles(Tail(all), ids)

\* profiles after the optional filter on profileIds
ResolveProfiles(all, ids) == IF ids # {} THEN FilterProfiles(all, ids) ELSE all


MinProfiles == 2

\* the test profiles.length < 2 on the resolved profiles
TooFewProfiles_one(n) == n < MinProfiles - 1

TooFewProfiles(n) == n < MinProfiles

\* the precondition error of analyzeSync / diffProfiles, or none
PreconditionError(all, ids, purpose) ==
  IF ids # {} /\ ResolveProfiles(all, ids) = <<>> THEN NoneFoundMsg
  ELSE IF TooFewProfiles(Len(ResolveProfiles(all, ids))) THEN TooFewMsg(purpose)
  ELSE NoError

\* analyzeSync up to the first profile fetch: list, filter, check
SyncStart ==
  /\ pc = "idle"
  /\ \E ids \in SUBSET ProfileIds, target \in SyncTargets, dry \in BOOLEAN,
        listed \in Answers(faults, {ListFailedMsg}) :
       /\ cmd' = "sync"
       /\ opts' = [profileIds |-> ids, listType |-> target, dryRun |-> dry]
       /\ calls' = [calls EXCEPT !.list = @ + 1]
       /\ faults' = Spend(faults, listed)
       /\ IF listed # Ok
          THEN /\ thrown' = listed
               /\ pc' = "failed"
               /\ profiles' = profiles
          ELSE /\ thrown' = PreconditionError(liveProfiles, ids, "to sync")
               /\ pc' = IF thrown' = NoError THEN "fetch" ELSE "failed"
               /\ profiles' = ResolveProfiles(liveProfiles, ids)
  /\ UNCHANGED <<fetchIdx, allData, analysis, operations, opIdx, attempt, results,
                 counters, progress, attemptsMade, lastCall, paused>>
  /\ UNCHANGED vendorVars
  /\ UNCHANGED copyVars
  /\ UNCHANGED <<pureVars, shellVars>>

\* the head of a turn of the fetch loops of analyzeSync and fetchProfileData:
\* await sleep(300)
FetchPause ==
  /\ pc = "fetch"
  /\ ~paused
  /\ paused' = TRUE
  /\ UNCHANGED <<cmd, opts, pc, thrown, calls, faults, profiles, fetchIdx, allData,
                 analysis, operations, opIdx, attempt, results, counters, progress,
                 attemptsMade, lastCall>>
  /\ UNCHANGED vendorVars
  /\ UNCHANGED copyVars
  /\ UNCHANGED <<pureVars, shellVars>>

\* the rest of a turn of analyzeSync's fetch loop: getProfileListData, which
\* turns a failed fetch into null, and null is left out of allData
SyncFetch ==
  /\ pc = "fetch"
  /\ cmd = "sync"
  /\ paused
  /\ \E fetched \in Answers(faults, {FetchFailedMsg}) :
       /\ faults' = Spend(faults, fetched)
       /\ allData' = IF fetched = Ok
                     THEN Append(allData, getProfileListData(profiles[fetchIdx]))
                     ELSE allData
  /\ calls' = [calls EXCEPT !.fetch = @ + 1]
  /\ paused' = FALSE
  /\ fetchIdx' = fetchIdx + 1
  /\ pc' = IF fetchIdx = Len(profiles) THEN "analyze" ELSE "fetch"
  /\ UNCHANGED <<cmd, opts, thrown, profiles, analysis, operations, opIdx, attempt,
                 results, counters, progress, attemptsMade, lastCall>>
  /\ UNCHANGED vendorVars
  /\ UNCHANGED copyVars
  /\ UNCHANGED <<pureVars, shellVars>>

\* ------------------------------------------------ sync orchestrator: execute

MaxRetries == 3

IsRateLimited(msg) == Includes(msg, <<"rateLimit">>)

\* the operations executeSync collects for its target
SelectOperations(a, target) ==
  (IF target \in {"both", "denylist"} THEN a.denylist.toAdd \o a.denylist.toUpdate ELSE <<>>)
  \o (IF target \in {"both", "allowlist"} THEN a.allowlist.toAdd \o a.allowlist.toUpdate ELSE <<>>)

executeSyncPlan_wet(a, o) ==
  [loop |-> TRUE, operations |-> SelectOperations(a, o.listType)]

\* executeSync before its loop: the dry-run return, or the operation list
executeSyncPlan(a, o) ==
  IF o.dryRun THEN [loop |-> FALSE, operations |-> <<>>]
  ELSE [loop |-> TRUE, operations |-> SelectOperations(a, o.listType)]

\* the end of analyzeSync (canonical state and operations) and the start of
\* executeSync (dry-run return, operation list)
SyncAnalyze ==
  /\ pc = "analyze"
  /\ analysis' = AnalysisOf(allData)
  /\ operations' = executeSyncPlan(analysis', opts).operations
  /\ attemptsMade' = [k \in 1..Len(operations') |-> 0]
  /\ pc' = IF executeSyncPlan(analysis', opts).loop /\ operations' # <<>>
           THEN "exec" ELSE "done"
  /\ UNCHANGED <<cmd, opts, thrown, profiles, fetchIdx, allData, opIdx, attempt,
                 results, counters, progress, calls, lastCall, paused, faults>>
  /\ UNCHANGED vendorVars
  /\ UNCHANGED copyVars
  /\ UNCHANGED <<pureVars, shellVars>>

\* the vendor's lists after a successful addDomain / updateDomainStatus
ApplyWrite(ls, op) ==
  IF op.type = "add"
  THEN [ls EXCEPT ![op.profileId][op.listType] =
          IF HasId(@, op.domain) THEN @
          ELSE Append(@, [id |-> op.domain, active |-> op.shouldBeActive])]
  ELSE [ls EXCEPT ![op.profileId][op.listType] =
          IF HasId(@, op.domain)
          THEN [@ EXCEPT ![IndexOfId(@, op.domain)].active = op.shouldBeActive]
          ELSE @]

Count_miscounted(c, op, success) ==
  IF op.type = "add"
  THEN (IF success THEN [c EXCEPT !.addSuccess = @ + 1] ELSE [c EXCEPT !.updateFail = @ + 1])
  ELSE (IF success THEN [c EXCEPT !.updateSuccess = @ + 1] ELSE [c EXCEPT !.updateFail = @ + 1])

\* the counters after operation op ended with success or failure
Count(c, op, success) ==
  IF op.type = "add"
  THEN (IF success THEN [c EXCEPT !.addSuccess = @ + 1] ELSE [c EXCEPT !.addFail = @ + 1])
  ELSE (IF success THEN [c EXCEPT !.updateSuccess = @ + 1] ELSE [c EXCEPT !.updateFail = @ + 1])

\* the retry decision of rateLimitedRequest after its attempt-th call (0-based)
\* failed with msg: retry, or rethrow
RetryAfter_four(att, msg) == IsRateLimited(msg) /\ att + 1 < MaxRetries + 1

RetryAfter(att, msg) == IsRateLimited(msg) /\ att + 1 < MaxRetries

\* the pause rateLimitedRequest makes after a call: sleep(DELAY_MS) on success,
\* sleep(2000) on a rate-limit error, none when it rethrows another error
PauseAfter(outcome) == IF outcome = Ok THEN TRUE ELSE IsRateLimited(outcome)

\* the loop body's tail: record the result, report progress, next operation
Finish(op, success, error) ==
  /\ results' = Append(results, [operation |-> op, success |-> success, error |-> error])
  /\ counters' = Count(counters, op, success)
  /\ progress' = Append(progress, [completed |-> opIdx, total |-> Len(operations)])
  /\ opIdx' = opIdx + 1
  /\ attempt' = 0
  /\ pc' = IF opIdx = Len(operations) THEN "done" ELSE "exec"

\* one call of rateLimitedRequest's loop for operations[opIdx], with what
\* follows it: the pause, and either the retry or the end of the loop body
SyncAttempt ==
  /\ pc = "exec"
  /\ LET op == operations[opIdx] IN
     \E outcome \in Answers(faults, SyncFaults) :
       /\ faults' = Spend(faults, outcome)
       /\ calls' = [calls EXCEPT !.write = @ + 1]
       /\ attemptsMade' = [attemptsMade EXCEPT ![opIdx] = @ + 1]
       /\ lastCall' = [op |-> opIdx, outcome |-> outcome]
       /\ paused' = PauseAfter(outcome)
       /\ IF outcome = Ok
          THEN /\ lists' = ApplyWrite(lists, op)
               /\ Finish(op, TRUE, NoError)
          ELSE /\ lists' = lists
               /\ IF RetryAfter(attempt, outcome)
                  THEN /\ attempt' = attempt + 1
                       /\ UNCHANGED <<results, counters, progress, opIdx, pc>>
                  ELSE Finish(op, FALSE, outcome)
  /\ UNCHANGED <<liveProfiles, edits, cmd, opts, thrown, profiles, fetchIdx, allData,
                 analysis, operations>>
  /\ UNCHANGED copyVars
  /\ UNCHANGED <<pureVars, shellVars>>

\* ------------------------------------------------------ diff engine: entry
\* diffProfiles up to the first profile fetch: list, filter, check
DiffStart ==
  /\ pc = "idle"
  /\ \E ids \in SUBSET ProfileIds, listed \in Answers(faults, {ListFailedMsg}) :
       /\ cmd' = "diff"
       /\ opts' = [profileIds |-> ids, section |-> "all", diffOnly |-> FALSE]
       /\ calls' = [calls EXCEPT !.list = @ + 1]
       /\ faults' = Spend(faults, listed)
       /\ IF listed # Ok
          THEN /\ thrown' = listed
               /\ pc' = "failed"
               /\ profiles' = profiles
          ELSE /\ thrown' = PreconditionError(liveProfiles, ids, "to compare")
               /\ pc' = IF thrown' = NoError THEN "fetch" ELSE "failed"
               /\ profiles' = ResolveProfiles(liveProfiles, ids)
  /\ UNCHANGED <<fetchIdx, allData, analysis, operations, opIdx, attempt, results,
                 counters, progress, attemptsMade, lastCall, paused>>
  /\ UNCHANGED vendorVars
  /\ UNCHANGED copyVars
  /\ UNCHANGED <<pureVars, shellVars>>

\* one turn of fetchProfileData's loop: sleep(300), then getProfile, whose
\* failure ends diffProfiles
DiffFetch ==
  /\ pc = "fetch"
  /\ cmd = "diff"
  /\ paused
  /\ calls' = [calls EXCEPT !.fetch = @ + 1]
  /\ paused' = FALSE
  /\ \E fetched \in Answers(faults, {FetchFailedMsg}) :
       /\ faults' = Spend(faults, fetched)
       /\ IF fetched = Ok
          THEN /\ allData' = Append(allData, getProfileListData(profiles[fetchIdx]))
               /\ fetchIdx' = fetchIdx + 1
               /\ pc' = IF fetchIdx = Len(profiles) THEN "done" ELSE "fetch"
               /\ thrown' = thrown
          ELSE /\ thrown' = fetched
               /\ pc' = "failed"
               /\ UNCHANGED <<allData, fetchIdx>>
  /\ UNCHANGED <<cmd, opts, profiles, analysis, operations, opIdx, attempt,
                 results, counters, progress, attemptsMade, lastCall>>
  /\ UNCHANGED vendorVars
  /\ UNCHANGED copyVars
  /\ UNCHANGED <<pureVars, shellVars>>

\* ---------------------------------------------------------- domain manager
\* the catch blocks' test for a not-found error
IsNotFound(error) ==
  Includes(error, <<"404">>) \/ Includes(toLowerCase(error), <<"not found">>)

\* addDomainToList's result for the vendor's answer
addDomainToList(answer) ==
  IF answer = Ok THEN [success |-> TRUE, error |-> NoError]
  ELSE [success |-> FALSE, error |-> answer]

updateDomainStatus_lenient(answer) ==
  IF answer = Ok THEN [success |-> TRUE, error |-> NoError]
  ELSE IF IsNotFound(answer) THEN [success |-> TRUE, error |-> NotFoundMsg]
  ELSE [success |-> FALSE, error |-> answer]

\* updateDomainStatus's result for the vendor's answer
updateDomainStatus(answer) ==
  IF answer = Ok THEN [success |-> TRUE, error |-> NoError]
  ELSE IF IsNotFound(answer) THEN [success |-> FALSE, error |-> NotFoundMsg]
  ELSE [success |-> FALSE, error |-> answer]

\* removeDomainFromList's result for the vendor's answer
removeDomainFromList(answer) ==
  IF answer = Ok THEN [success |-> TRUE, error |-> NoError]
  ELSE IF IsNotFound(answer) THEN [success |-> TRUE, error |-> AlreadyRemovedMsg]
  ELSE [success |-> FALSE, error |-> answer]

DomainActions == {"add", "remove", "enable", "disable"}

\* manageDomain's switch on the action
ActionResult(action, answer) ==
  CASE action = "add" -> addDomainToList(answer)
    [] action = "remove" -> removeDomainFromList(answer)
    [] action = "enable" -> updateDomainStatus(answer)
    [] action = "disable" -> updateDomainStatus(answer)

RECURSIVE WithoutId(_, _)
WithoutId(m, d) ==
  IF m = <<>> THEN <<>>
  ELSE (IF Head(m).id = d THEN <<>> ELSE <<Head(m)>>) \o WithoutId(Tail(m), d)

\* the vendor's lists after a successful call of the domain manager
ApplyAction(ls, p, o) ==
  CASE o.action = "add" ->
         ApplyWrite(ls, [type |-> "add", profileId |-> p, listType |-> o.listType,
                         domain |-> o.domain, shouldBeActive |-> TRUE])
    [] o.action = "remove" ->
         [ls EXCEPT ![p][o.listType] = WithoutId(@, o.domain)]
    [] o.action \in {"enable", "disable"} ->
         ApplyWrite(ls, [type |-> "update", profileId |-> p, listType |-> o.listType,
                         domain |-> o.domain, shouldBeActive |-> (o.action = "enable")])

\* the target profiles' error, or none
TargetError(all, ids) ==
  IF ids # {} /\ ResolveProfiles(all, ids) = <<>> THEN NoneFoundMsg
  ELSE IF ResolveProfiles(all, ids) = <<>> THEN NoProfilesMsg
  ELSE NoError

ManageLoopNext_abort(idx, n, success) ==
  IF idx = n \/ ~success THEN "done" ELSE "apply"

\* where manageDomain's loop goes after the turn for profile idx of n
ManageLoopNext(idx, n, success) == IF idx = n THEN "done" ELSE "apply"

\* manageDomain up to its loop: list, filter, check
ManageStart ==
  /\ pc = "idle"
  /\ \E ids \in SUBSET ProfileIds, action \in DomainActions, lt \in ListTypeSet,
        d \in Domains, listed \in Answers(faults, {ListFailedMsg}) :
       /\ cmd' = "manage"
       /\ opts' = [profileIds |-> ids, action |-> action, listType |-> lt, domain |-> d]
       /\ calls' = [calls EXCEPT !.list = @ + 1]
       /\ faults' = Spend(faults, listed)
       /\ IF listed # Ok
          THEN /\ thrown' = listed
               /\ pc' = "failed"
               /\ UNCHANGED <<profiles, attemptsMade, counters>>
          ELSE /\ thrown' = TargetError(liveProfiles, ids)
               /\ pc' = IF thrown' = NoError THEN "apply" ELSE "failed"
               /\ profiles' = ResolveProfiles(liveProfiles, ids)
               /\ attemptsMade' = [k \in 1..Len(profiles') |-> 0]
               /\ counters' = [successCount |-> 0, failCount |-> 0]
  /\ UNCHANGED <<fetchIdx, allData, analysis, operations, opIdx, attempt, results,
                 progress, lastCall, paused>>
  /\ UNCHANGED vendorVars
  /\ UNCHANGED copyVars
  /\ UNCHANGED <<pureVars, shellVars>>

\* one turn of manageDomain's loop: the action's call on profiles[opIdx], its
\* result, the counters and the progress callback
ManageApply ==
  /\ pc = "apply"
  /\ cmd = "manage"
  /\ \E answer \in Answers(faults, ManageFaults) :
       LET p == profiles[opIdx]
           result == ActionResult(opts.action, answer)
           operationResult == [profileId |-> p, success |-> result.success,
                               error |-> result.error]
       IN /\ faults' = Spend(faults, answer)
          /\ lastCall' = [op |-> opIdx, outcome |-> answer]
          /\ lists' = IF answer = Ok THEN ApplyAction(lists, p, opts) ELSE lists
          /\ results' = Append(results, operationResult)
          /\ counters' = IF result.success
                         THEN [counters EXCEPT !.successCount = @ + 1]
                         ELSE [counters EXCEPT !.failCount = @ + 1]
          /\ progress' = Append(progress, operationResult)
          /\ pc' = ManageLoopNext(opIdx, Len(profiles), result.success)
  /\ calls' = [calls EXCEPT !.write = @ + 1]
  /\ attemptsMade' = [attemptsMade EXCEPT ![opIdx] = @ + 1]
  /\ opIdx' = opIdx + 1
  /\ UNCHANGED <<liveProfiles, edits, cmd, opts, thrown, profiles, fetchIdx, allData,
                 analysis, operations, attempt, paused>>
  /\ UNCHANGED copyVars
  /\ UNCHANGED <<pureVars, shellVars>>

\* ------------------------------------------------------- profile cloner
PathSet == {"root", "security", "privacy", "parentalControl", "settings",
            "settings.logs", "settings.performance"}

KNOWN_FIELDS(path) ==
  CASE path = "root" ->
         {"id", "fingerprint", "name", "setup", "security", "privacy",
          "parentalControl", "denylist", "allowlist", "settings", "rewrites"}
    [] path = "security" ->
         {"threatIntelligenceFeeds", "aiThreatDetection", "googleSafeBrowsing",
          "cryptojacking", "dnsRebinding", "idnHomographs", "typosquatting",
          "dga", "nrd", "ddns", "parking", "csam", "tlds"}
    [] path = "privacy" ->
         {"disguisedTrackers", "allowAffiliate", "blocklists", "natives"}
    [] path = "parentalControl" ->
         {"safeSearch", "youtubeRestrictedMode", "blockBypass", "services",
          "categories", "recreation"}
    [] path = "settings" -> {"logs", "blockPage", "performance", "web3", "bav"}
    [] path = "settings.logs" -> {"enabled", "drop", "retention", "location"}
    [] path = "settings.performance" -> {"ecs", "cacheBoost", "cnameFlattening"}

SKIPPED_FIELDS(path) ==
  CASE path = "root" -> {"id", "fingerprint", "setup"}
    [] path = "parentalControl" -> {"recreation"}
    [] OTHER -> {}

checkFields_perKey(data, knownSet, skippedSet, path) ==
  LET unknown == {k \in data : k \notin knownSet /\ k \notin skippedSet}
  IN [i \in 1..Cardinality(unknown) |-> [path |-> path, unknown |-> unknown]]

\* one warning for the section at path when it has keys outside both tables,
\* listing all of them
checkFields(data, knownSet, skippedSet, path) ==
  LET unknown == {k \in data : k \notin knownSet /\ k \notin skippedSet}
  IN IF unknown # {} THEN <<[path |-> path, unknown |-> unknown]>> ELSE <<>>

\* sourceData has the section at path (its parent holds the section's key)
HasSection(src, path) ==
  CASE path = "root" -> TRUE
    [] path = "settings.logs" -> "settings" \in src["root"] /\ "logs" \in src["settings"]
    [] path = "settings.performance" ->
         "settings" \in src["root"] /\ "performance" \in src["settings"]
    [] OTHER -> path \in src["root"]

CheckSection(src, path, skippedSet) ==
  IF HasSection(src, path)
  THEN checkFields(src[path], KNOWN_FIELDS(path), skippedSet, path)
  ELSE <<>>

validateApiSchema(src) ==
  CheckSection(src, "root", SKIPPED_FIELDS("root"))
    \o CheckSection(src, "security", {})
    \o CheckSection(src, "privacy", {})
    \o CheckSection(src, "parentalControl", SKIPPED_FIELDS("parentalControl"))
    \o CheckSection(src, "settings", {})
    \o CheckSection(src, "settings.logs", {})
    \o CheckSection(src, "settings.performance", {})

RECURSIVE PresentFields(_, _)
PresentFields(fields, data) ==
  IF fields = <<>> THEN <<>>
  ELSE (IF Head(fields) \in data THEN <<Head(fields)>> ELSE <<>>)
         \o PresentFields(Tail(fields), data)

getSkippedFields(src) ==
  PresentFields(<<"id", "fingerprint", "setup">>, src["root"])
    \o (IF HasSection(src, "parentalControl") /\ "recreation" \in src["parentalControl"]
        THEN <<"parentalControl.recreation">> ELSE <<>>)

\* a profile with the given keys at root, in security and in parentalControl
SourceShape(rootKeys, securityKeys, parentalKeys) ==
  [path \in PathSet |->
     CASE path = "root" -> rootKeys
       [] path = "security" -> securityKeys
       [] path = "parentalControl" -> parentalKeys
       [] OTHER -> {}]

\* the source profiles: known, skipped and unknown keys at root and in two sections
Sources ==
  {SourceShape({"name"} \cup r, s, p) :
     r \in SUBSET {"id", "security", "parentalControl", "mystery", "enigma"},
     s \in SUBSET {"csam", "mystery"},
     p \in SUBSET {"recreation"}}

WellShaped(src) ==
  /\ "security" \notin src["root"] => src["security"] = {}
  /\ "parentalControl" \notin src["root"] => src["parentalControl"] = {}

NoSource == SourceShape({}, {}, {})

Rewrite(i) == [id |-> i, name |-> i, content |-> i, type |-> "A"]
RewriteLists == {[i \in 1..n |-> Rewrite(i)] : n \in 0..MaxRewrites}

cleanRewrites_raw(rewrites) == rewrites

\* copyRewrites' cleanRewrites
cleanRewrites(rewrites) ==
  [i \in 1..Len(rewrites) |-> [name |-> rewrites[i].name, content |-> rewrites[i].content]]

\* verifyClone's cleanRw
cleanRw(rwList) == {[name |-> rwList[i].name, content |-> rwList[i].content] : i \in 1..Len(rwList)}

NoProfileId == 0
NewProfileId == MaxProfiles + 1
NoDest == [id |-> NoProfileId, drift |-> FALSE, rewrites |-> <<>>]
NoResult ==
  [success |-> FALSE, newProfileId |-> NoProfileId, verificationMismatches |-> <<>>,
   skippedFields |-> <<>>, schemaWarnings |-> <<>>]

CopyFaults == {<<"404", "Not found">>, <<"400", "Bad request">>}
CopyAnswers == {Ok} \cup CopyFaults

StepStart(step) == [ev |-> "start", step |-> step, ok |-> TRUE]
StepComplete(step, success) == [ev |-> "complete", step |-> step, ok |-> success]
Warning == [ev |-> "warning", step |-> "Schema validation", ok |-> FALSE]
Call(name, outcome) == [call |-> name, outcome |-> outcome]

SchemaGate_inverted(warnings, f) == warnings # <<>> /\ f

\* the schema gate: warnings and no force
SchemaGate(warnings, f) == warnings # <<>> /\ ~f

\* copyProfile up to its createProfile call: the source fetch, the schema
\* validation and the gate
CopyStart ==
  /\ pc = "idle"
  /\ cmd = "none"
  /\ \E f \in BOOLEAN, outcome \in CopyAnswers :
       LET schemaWarnings == validateApiSchema(source)
           fetch == StepStart("Fetch source profile")
       IN /\ force' = f
          /\ copyLog' = <<Call("getProfile", outcome)>>
          /\ IF outcome # Ok
             THEN /\ steps' = <<fetch, StepComplete("Fetch source profile", FALSE)>>
                  /\ copyResult' = NoResult
                  /\ pc' = "copyDone"
             ELSE /\ copyResult' = [NoResult EXCEPT !.schemaWarnings = schemaWarnings]
                  /\ IF SchemaGate(schemaWarnings, f)
                     THEN /\ steps' = <<fetch, StepComplete("Fetch source profile", TRUE),
                                        Warning, StepComplete("Schema validation", FALSE)>>
                          /\ pc' = "copyDone"
                     ELSE /\ steps' = <<fetch, StepComplete("Fetch source profile", TRUE)>>
                                        \o (IF schemaWarnings # <<>> THEN <<Warning>> ELSE <<>>)
                                        \o <<StepStart("Create new profile")>>
                          /\ pc' = "copyCreate"
  /\ cmd' = "copy"
  /\ UNCHANGED <<source, srcRewrites, dest, rwIdx, rwCount, rwSent>>
  /\ UNCHANGED <<liveProfiles, lists, edits, faults, opts, thrown, calls>>
  /\ UNCHANGED syncVars
  /\ UNCHANGED <<pureVars, shellVars>>

\* the createProfile call and what follows it up to copyRewrites' first call
CopyCreate ==
  /\ pc = "copyCreate"
  /\ \E outcome \in CopyAnswers, drift \in BOOLEAN :
       /\ copyLog' = Append(copyLog, Call("createProfile", outcome))
       /\ IF outcome = Ok
          THEN /\ dest' = [id |-> NewProfileId, drift |-> drift, rewrites |-> <<>>]
               /\ copyResult' = [copyResult EXCEPT !.newProfileId = NewProfileId]
               /\ steps' = steps \o <<StepComplete("Create new profile", TRUE),
                                      StepStart("Copy rewrites")>>
               /\ pc' = "copyRewrites"
          ELSE /\ drift = FALSE
               /\ UNCHANGED <<dest, copyResult>>
               /\ steps' = Append(steps, StepComplete("Create new profile", FALSE))
               /\ pc' = "copyDone"
  /\ UNCHANGED <<source, srcRewrites, force, rwIdx, rwCount, rwSent>>
  /\ UNCHANGED <<liveProfiles, lists, edits, faults, cmd, opts, thrown, calls>>
  /\ UNCHANGED syncVars
  /\ UNCHANGED <<pureVars, shellVars>>

\* copyRewrites has returned: its step completes and the verification starts
RewritesCopied(success) ==
  /\ steps' = steps \o <<StepComplete("Copy rewrites", success), StepStart("Verify clone")>>
  /\ pc' = "copyVerify"

\* copyRewrites' fetch of the source's rewrites
CopyRewritesFetch ==
  /\ pc = "copyRewrites"
  /\ \E outcome \in CopyAnswers :
       /\ copyLog' = Append(copyLog, Call("getRewrites", outcome))
       /\ IF outcome # Ok THEN RewritesCopied(Includes(outcome, <<"404">>))
          ELSE IF srcRewrites = <<>> THEN RewritesCopied(TRUE)
          ELSE /\ pc' = "copyPut"
               /\ steps' = steps
  /\ UNCHANGED <<source, srcRewrites, dest, force, copyResult, rwIdx, rwCount, rwSent>>
  /\ UNCHANGED <<liveProfiles, lists, edits, faults, cmd, opts, thrown, calls>>
  /\ UNCHANGED syncVars
  /\ UNCHANGED <<pureVars, shellVars>>

\* copyRewrites' bulk PUT
CopyPut ==
  /\ pc = "copyPut"
  /\ \E outcome \in CopyAnswers :
       /\ copyLog' = Append(copyLog, Call("putRewrites", outcome))
       /\ IF outcome = Ok
          THEN /\ dest' = [dest EXCEPT !.rewrites = cleanRewrites(srcRewrites)]
               /\ RewritesCopied(TRUE)
          ELSE /\ pc' = "copyPost"
               /\ UNCHANGED <<dest, steps>>
  /\ rwIdx' = 1
  /\ rwCount' = 0
  /\ rwSent' = <<[method |-> "PUT", rewrites |-> cleanRewrites(srcRewrites)]>>
  /\ UNCHANGED <<source, srcRewrites, force, copyResult>>
  /\ UNCHANGED <<liveProfiles, lists, edits, faults, cmd, opts, thrown, calls>>
  /\ UNCHANGED syncVars
  /\ UNCHANGED <<pureVars, shellVars>>

\* one turn of copyRewrites' POST fallback loop
CopyPost ==
  /\ pc = "copyPost"
  /\ \E outcome \in CopyAnswers :
       LET count == IF outcome = Ok THEN rwCount + 1 ELSE rwCount
       IN /\ copyLog' = Append(copyLog, Call("addRewrite", outcome))
          /\ dest' = IF outcome = Ok
                     THEN [dest EXCEPT !.rewrites = Append(@, cleanRewrites(srcRewrites)[rwIdx])]
                     ELSE dest
          /\ rwCount' = count
          /\ rwSent' = Append(rwSent, [method |-> "POST",
                                       rewrites |-> <<cleanRewrites(srcRewrites)[rwIdx]>>])
          /\ rwIdx' = rwIdx + 1
          /\ IF rwIdx = Len(srcRewrites) THEN RewritesCopied(count > 0)
             ELSE UNCHANGED <<pc, steps>>
  /\ UNCHANGED <<source, srcRewrites, force, copyResult>>
  /\ UNCHANGED <<liveProfiles, lists, edits, faults, cmd, opts, thrown, calls>>
  /\ UNCHANGED syncVars
  /\ UNCHANGED <<pureVars, shellVars>>

\* the calls verifyClone issues, given the vendor's answers to them
verifyCalls(srcOut, srcRwOut, dstOut, dstRwOut) ==
  <<Call("getProfile", srcOut)>>
    \o (IF srcOut = Ok
        THEN <<Call("getRewrites", srcRwOut), Call("getProfile", dstOut)>>
               \o (IF dstOut = Ok THEN <<Call("getRewrites", dstRwOut)>> ELSE <<>>)
        ELSE <<>>)

\* verifyClone's mismatch list; the sections of the two profiles are compared
\* as a whole, the rewrites as sets of name and content
verifyClone(srcOut, srcRwOut, dstOut, dstRwOut) ==
  IF srcOut # Ok THEN <<"Verification skipped: could not fetch source profile">>
  ELSE IF dstOut # Ok THEN <<"Verification skipped: could not fetch destination profile">>
  ELSE LET sRw == cleanRw(IF srcRwOut = Ok THEN srcRewrites ELSE <<>>)
           dRw == cleanRw(IF dstRwOut = Ok THEN dest.rewrites ELSE <<>>)
       IN (IF dest.drift THEN <<"Settings mismatch">> ELSE <<>>)
            \o (IF sRw # dRw THEN <<"Rewrites mismatch">> ELSE <<>>)

\* the success flag copyProfile sets once the verification has returned
SuccessAfterVerify_strict(mismatches) == mismatches = <<>>

SuccessAfterVerify(mismatches) == TRUE

\* the verification and the end of copyProfile
CopyVerify ==
  /\ pc = "copyVerify"
  /\ \E srcOut \in CopyAnswers, srcRwOut \in CopyAnswers,
        dstOut \in CopyAnswers, dstRwOut \in CopyAnswers :
       LET mismatches == verifyClone(srcOut, srcRwOut, dstOut, dstRwOut)
       IN /\ copyLog' = copyLog \o verifyCalls(srcOut, srcRwOut, dstOut, dstRwOut)
          /\ steps' = Append(steps, StepComplete("Verify clone", mismatches = <<>>))
          /\ copyResult' = [copyResult EXCEPT
                              !.verificationMismatches = mismatches,
                              !.skippedFields = getSkippedFields(source),
                              !.success = SuccessAfterVerify(mismatches)]
  /\ pc' = "copyDone"
  /\ UNCHANGED <<source, srcRewrites, dest, force, rwIdx, rwCount, rwSent>>
  /\ UNCHANGED <<liveProfiles, lists, edits, faults, cmd, opts, thrown, calls>>
  /\ UNCHANGED syncVars
  /\ UNCHANGED <<pureVars, shellVars>>

\* ---------------------------------------------------- schema validation
\* the profiles validateApiSchema is applied to: any of the sections, each
\* with its known and skipped keys and with no, one or two unknown keys
UnknownSets == {{}, {"mystery"}, {"mystery", "enigma"}}
SectionKeys ==
  {"security", "privacy", "parentalControl", "settings", "logs", "performance"}
KeyOf(path) ==
  CASE path = "settings.logs" -> "logs"
    [] path = "settings.performance" -> "performance"
    [] OTHER -> path
ParentOf(path) ==
  IF path \in {"settings.logs", "settings.performance"} THEN "settings" ELSE "root"

SchemaSource(present, unk) ==
  [path \in PathSet |->
     IF path \in present \cup {"root"}
     THEN (KNOWN_FIELDS(path) \ SectionKeys)
            \cup {KeyOf(q) : q \in {r \in present : ParentOf(r) = path}}
            \cup unk[path]
     ELSE {}]

SchemaSources ==
  {SchemaSource(s.present, s.unk) :
     s \in {t \in [present : SUBSET (PathSet \ {"root"}), unk : [PathSet -> UnknownSets]] :
              /\ \A q \in t.present : ParentOf(q) \in t.present \cup {"root"}
              /\ \A q \in PathSet \ (t.present \cup {"root"}) : t.unk[q] = {}}}

Validate ==
  /\ pc = "idle"
  /\ cmd = "none"
  /\ cmd' = "validateApiSchema"
  /\ pc' = "done"
  /\ validation' = validateApiSchema(source)
  /\ UNCHANGED <<sourceData, payload, snapshots, rows, tables, opts, thrown, calls, faults>>
  /\ UNCHANGED <<syncVars, vendorVars, copyVars, shellVars>>

\* ------------------------------------------------ payload reconstruction
\* An object is a function from its keys; a name is a sequence of tokens.
Has(obj, k) == k \in DOMAIN obj

OrDefault_falsy(obj, k, default) ==
  IF Has(obj, k) /\ obj[k] # FALSE THEN obj[k] ELSE default

\* obj[k] ?? default
OrDefault(obj, k, default) == IF Has(obj, k) THEN obj[k] ELSE default

SecurityFlags ==
  {"threatIntelligenceFeeds", "aiThreatDetection", "googleSafeBrowsing",
   "cryptojacking", "dnsRebinding", "idnHomographs", "typosquatting", "dga",
   "nrd", "ddns", "parking", "csam"}
PrivacyFlags == {"disguisedTrackers", "allowAffiliate"}
ParentalFlags == {"safeSearch", "youtubeRestrictedMode", "blockBypass"}
SettingsKeys == {"logs", "blockPage", "performance", "web3", "bav"}
PayloadSections ==
  {"security", "privacy", "parentalControl", "denylist", "allowlist", "settings"}

\* list.map(x => ({id: x.id}))
IdOnly(list) == [i \in 1..Len(list) |-> [id |-> list[i].id]]

\* list.map(x => ({id: x.id, active: x.active ?? default}))
WithActive(list, default) ==
  [i \in 1..Len(list) |->
     [id |-> list[i].id, active |-> OrDefault(list[i], "active", default)]]

SecurityDefault == TRUE
SecurityPayload(sec) ==
  [k \in SecurityFlags \cup ({"tlds"} \cap DOMAIN sec) |->
     IF k = "tlds" THEN IdOnly(sec[k]) ELSE OrDefault(sec, k, SecurityDefault)]

PrivacyPayload(priv) ==
  [k \in PrivacyFlags \cup ({"blocklists", "natives"} \cap DOMAIN priv) |->
     IF k \in PrivacyFlags THEN OrDefault(priv, k, TRUE) ELSE IdOnly(priv[k])]

ParentalPayload_all(pctl) ==
  [k \in ParentalFlags \cup ({"services", "categories", "recreation"} \cap DOMAIN pctl) |->
     IF k \in ParentalFlags THEN OrDefault(pctl, k, FALSE)
     ELSE IF k = "recreation" THEN pctl[k] ELSE WithActive(pctl[k], FALSE)]

ParentalPayload(pctl) ==
  [k \in ParentalFlags \cup ({"services", "categories"} \cap DOMAIN pctl) |->
     IF k \in ParentalFlags THEN OrDefault(pctl, k, FALSE)
     ELSE WithActive(pctl[k], FALSE)]

SettingsPayload(srcSet) == [k \in SettingsKeys \cap DOMAIN srcSet |-> srcSet[k]]

reconstructPayload(src) ==
  LET baseName == IF Has(src, "name") /\ src["name"] # <<>>
                  THEN src["name"] ELSE <<"Cloned Profile">>
  IN [k \in {"name"} \cup (PayloadSections \cap DOMAIN src) |->
        CASE k = "name" -> baseName \o <<" (Copy)">>
          [] k = "security" -> SecurityPayload(src[k])
          [] k = "privacy" -> PrivacyPayload(src[k])
          [] k = "parentalControl" -> ParentalPayload(src[k])
          [] k = "denylist" -> WithActive(src[k], TRUE)
          [] k = "allowlist" -> WithActive(src[k], TRUE)
          [] k = "settings" -> SettingsPayload(src[k])]

\* --- the profiles reconstructPayload is applied to
\* a flag that is absent, true or false
Tri == {"absent", "true", "false"}
\* the object holding the flags that are not absent
Flags(tri) == [k \in {f \in DOMAIN tri : tri[f] # "absent"} |-> tri[k] = "true"]

\* the object with the properties of a and those of b
Merge(a, b) ==
  [k \in DOMAIN a \cup DOMAIN b |-> IF k \in DOMAIN a THEN a[k] ELSE b[k]]

\* the objects with any subset of the properties of obj
Parts(obj) == {[k \in ks |-> obj[k]] : ks \in SUBSET DOMAIN obj}

Entry(i, tri) ==
  IF tri = "absent" THEN [id |-> i] ELSE [id |-> i, active |-> tri = "true"]
EntryLists ==
  {<<>>} \cup {<<Entry(1, t)>> : t \in Tri}
         \cup {<<Entry(1, t), Entry(2, u)>> : t \in Tri, u \in Tri}
IdLists == {<<>>, <<[id |-> 1, name |-> "x"]>>, <<[id |-> 2], [id |-> 1]>>}

\* every flag as base says, but flag f as t says
Securities ==
  {Merge(Flags([k \in SecurityFlags |-> IF k = f THEN t ELSE base]), arrays) :
     base \in Tri, f \in SecurityFlags, t \in Tri,
     arrays \in {<<>>} \cup {[tlds |-> l] : l \in IdLists}}
Privacies ==
  {Merge(Flags(tri), arrays) :
     tri \in [PrivacyFlags -> Tri],
     arrays \in Parts([blocklists |-> <<[id |-> 1]>>, natives |-> <<[id |-> 2]>>])}
ParentalControls ==
  {Merge(Flags(tri), arrays) :
     tri \in [ParentalFlags -> Tri],
     arrays \in UNION {Parts([services |-> l, categories |-> <<Entry(2, "absent")>>,
                             recreation |-> "schedule"]) :
                        l \in {<<Entry(1, t)>> : t \in Tri}}}
Settings ==
  Parts([logs |-> [enabled |-> TRUE], blockPage |-> [enabled |-> FALSE],
         performance |-> [ecs |-> TRUE], web3 |-> FALSE, bav |-> TRUE])

RootKeys ==
  {"id", "fingerprint", "name", "setup", "security", "privacy", "parentalControl",
   "denylist", "allowlist", "settings", "rewrites", "mystery"}

\* the values a root key is given while the others keep the sample's
ValuesOf(k) ==
  CASE k = "name" -> {<<>>, <<"Home">>}
    [] k = "security" -> Securities
    [] k = "privacy" -> Privacies
    [] k = "parentalControl" -> ParentalControls
    [] k = "denylist" -> EntryLists
    [] k = "allowlist" -> EntryLists
    [] k = "settings" -> Settings

SampleProfile ==
  [k \in RootKeys |->
     CASE k = "name" -> <<"Home">>
       [] k = "security" -> Flags([f \in SecurityFlags |-> "true"])
       [] k = "privacy" -> Flags([f \in PrivacyFlags |-> "false"])
       [] k = "parentalControl" -> [safeSearch |-> TRUE, recreation |-> "schedule"]
       [] k = "denylist" -> <<Entry(1, "false")>>
       [] k = "allowlist" -> <<Entry(2, "absent")>>
       [] k = "settings" -> [web3 |-> FALSE]
       [] k = "rewrites" -> <<>>
       [] OTHER -> "generated"]

\* the sample with any subset of its root keys, and the sample and the
\* one-section profile with each value of each section
SourceDatas ==
  Parts(SampleProfile)
    \cup UNION {{[SampleProfile EXCEPT ![k] = v] : v \in ValuesOf(k)} :
                  k \in PayloadSections \cup {"name"}}
    \cup UNION {{[j \in {k} |-> v] : v \in ValuesOf(k)} :
                  k \in PayloadSections \cup {"name"}}

NoObject == <<>>

Reconstruct ==
  /\ pc = "idle"
  /\ cmd = "none"
  /\ cmd' = "reconstructPayload"
  /\ pc' = "done"
  /\ payload' = reconstructPayload(sourceData)
  /\ UNCHANGED <<sourceData, validation, snapshots, rows, tables, opts, thrown, calls, faults>>
  /\ UNCHANGED <<syncVars, vendorVars, copyVars, shellVars>>

\* ------------------------------------------------------------ diff engine
\* A JavaScript value: undefined, a boolean, a number, a string, an object
\* (its properties in insertion order) or an array (its items in order).
Undef == [t |-> "undef", s |-> "", kv |-> <<>>]
Bool(b) == [t |-> "bool", s |-> IF b THEN "true" ELSE "false", kv |-> <<>>]
Num(n) == [t |-> "num", s |-> ToString(n), kv |-> <<>>]
Str(s) == [t |-> "str", s |-> s, kv |-> <<>>]
KV(k, v) == [k |-> k, v |-> v]
Obj(kv) == [t |-> "obj", s |-> "", kv |-> kv]
Arr(items) == [t |-> "arr", s |-> "", kv |-> [i \in 1..Len(items) |-> KV("", items[i])]]

\* obj?.[key]
Get(obj, key) ==
  LET hits == {i \in 1..Len(obj.kv) : obj.t = "obj" /\ obj.kv[i].k = key}
  IN IF hits = {} THEN Undef ELSE obj.kv[CHOOSE i \in hits : TRUE].v

\* Object.keys(obj)
KeysOf(obj) == {obj.kv[i].k : i \in 1..Len(obj.kv)}

\* the strings of the model in the order Array.prototype.sort puts them
SortOrder ==
  <<"[object Object]", "a.com", "b.com", "cacheBoost", "cnameFlattening", "drop",
    "ecs", "enabled", "location", "oisd", "retention", "tiktok">>

RECURSIVE SortBy(_, _)
SortBy(order, seq) ==
  IF order = <<>> THEN <<>>
  ELSE SelectSeq(seq, LAMBDA x : x = Head(order)) \o SortBy(Tail(order), seq)

\* seq.sort() and Array.from(set).sort()
Sorted(seq) == SortBy(SortOrder, seq)
SortSet(set) == SelectSeq(SortOrder, LAMBDA x : x \in set)

\* JSON.stringify, as the sequence of the text's tokens
RECURSIVE Stringify(_)
RECURSIVE StringifyAll(_)
StringifyAll(kv) ==
  IF kv = <<>> THEN <<>>
  ELSE (IF Head(kv).k # "" THEN <<Head(kv).k, ":">> ELSE <<>>)
         \o Stringify(Head(kv).v) \o <<",">> \o StringifyAll(Tail(kv))
Stringify(val) ==
  CASE val.t = "undef" -> <<"undefined">>
    [] val.t = "str" -> <<"\"", val.s, "\"">>
    [] val.t = "obj" -> <<"{">> \o StringifyAll(val.kv) \o <<"}">>
    [] val.t = "arr" -> <<"[">> \o StringifyAll(val.kv) \o <<"]">>
    [] OTHER -> <<val.s>>

\* item.id || String(item)
ItemId(item) ==
  LET id == Get(item, "id")
  IN IF id.t = "str" /\ id.s # "" THEN id.s
     ELSE IF item.t = "obj" THEN "[object Object]" ELSE item.s

formatValue(val) ==
  CASE val.t = "undef" -> "-"
    [] val.t = "bool" -> IF val.s = "true" THEN "check" ELSE "cross"
    [] val.t = "arr" -> ToString(Len(val.kv))
    [] val.t = "obj" -> "{...}"
    [] OTHER -> val.s

normalizeListForComparison(val) ==
  IF val.t # "arr" THEN Stringify(val)
  ELSE IF val.kv = <<>> THEN <<"[]">>
  ELSE IF val.kv[1].v.t \in {"obj", "arr"}
       THEN <<"[">> \o Sorted([i \in 1..Len(val.kv) |-> ItemId(val.kv[i].v)]) \o <<"]">>
       ELSE <<"[">> \o Sorted([i \in 1..Len(val.kv) |-> val.kv[i].v.s]) \o <<"]">>

\* the row of one field, from the profiles' raw values of it
FieldRow(label, vals) ==
  LET compareValues == [p \in 1..Len(vals) |-> normalizeListForComparison(vals[p])]
  IN [label |-> label,
      values |-> [p \in 1..Len(vals) |-> formatValue(vals[p])],
      hasDiff |-> ~(\A p \in 1..Len(vals) : compareValues[p] = compareValues[1])]

compareSettings(data, sectionName, fields) ==
  [f \in 1..Len(fields) |->
     FieldRow(<<fields[f]>>,
              [p \in 1..Len(data) |-> Get(Get(data[p], sectionName), fields[f])])]

RECURSIVE compareNestedSettings(_, _, _)
compareNestedSettings(data, sectionName, fields) ==
  IF fields = <<>> THEN <<>>
  ELSE LET field == Head(fields)
           fieldValue == Get(Get(data[1], sectionName), field)
           subfields == SortSet(KeysOf(fieldValue))
       IN (IF fieldValue.t = "obj"
           THEN [i \in 1..Len(subfields) |->
                   FieldRow(<<field, subfields[i]>>,
                            [p \in 1..Len(data) |->
                               Get(Get(Get(data[p], sectionName), field), subfields[i])])]
           ELSE compareSettings(data, sectionName, <<field>>))
            \o compareNestedSettings(data, sectionName, Tail(fields))

\* a row of compareDenylistAllowlist / compareListItems from the profiles'
\* states: "null", "undefined", "true" or "false"
StateCell(state) ==
  CASE state = "null" -> "-"
    [] state = "true" -> "check"
    [] OTHER -> "cross"

NonNull(states) == SelectSeq(states, LAMBDA s : s # "null")

DomainHasDiff_flagsOnly(states) ==
  /\ Len(NonNull(states)) > 0
  /\ ~(\A i \in 1..Len(NonNull(states)) : NonNull(states)[i] = NonNull(states)[1])

\* hasDiff of a domain's row: a profile lacks it, or the flags differ
DomainHasDiff(states) ==
  \/ \E p \in 1..Len(states) : states[p] = "null"
  \/ /\ Len(NonNull(states)) > 0
     /\ ~(\A i \in 1..Len(NonNull(states)) : NonNull(states)[i] = NonNull(states)[1])

compareDenylistAllowlist(data, listType) ==
  LET allDomains == SortSet(UNION {KeysOf(Get(data[p], listType)) : p \in 1..Len(data)})
      State(p, domain) ==
        LET state == Get(Get(data[p], listType), domain)
        IN IF state.t = "undef" THEN "null" ELSE state.s
  IN [d \in 1..Len(allDomains) |->
        LET states == [p \in 1..Len(data) |-> State(p, allDomains[d])]
        IN [label |-> <<allDomains[d]>>,
            values |-> [p \in 1..Len(data) |-> StateCell(states[p])],
            hasDiff |-> DomainHasDiff(states)]]

compareListItems(data, sectionName, field, hasActiveField) ==
  LET Items(p) == Get(Get(data[p], sectionName), field)
      ItemIds(p) == IF Items(p).t = "arr"
                    THEN {ItemId(Items(p).kv[i].v) : i \in 1..Len(Items(p).kv)}
                    ELSE {}
      allItems == SortSet(UNION {ItemIds(p) : p \in 1..Len(data)})
      \* itemMap[itemId]: the last item with that id
      Item(p, itemId) ==
        Items(p).kv[CHOOSE i \in 1..Len(Items(p).kv) :
                      /\ ItemId(Items(p).kv[i].v) = itemId
                      /\ \A j \in (i + 1)..Len(Items(p).kv) :
                           ItemId(Items(p).kv[j].v) # itemId].v
      State(p, itemId) ==
        IF itemId \notin ItemIds(p) THEN "null"
        ELSE IF ~hasActiveField THEN "true"
        ELSE IF Get(Item(p, itemId), "active").t = "undef" THEN "undefined"
        ELSE Get(Item(p, itemId), "active").s
  IN [n \in 1..Len(allItems) |->
        LET states == [p \in 1..Len(data) |-> State(p, allItems[n])]
        IN [label |-> <<allItems[n]>>,
            values |-> [p \in 1..Len(data) |-> StateCell(states[p])],
            hasDiff |-> ~(\A p \in 1..Len(states) : states[p] = states[1])]]

HasDiff(row) == row.hasDiff

\* createTable: no table when no row is displayed
createTable(title, tableRows, diffOnly) ==
  LET displayRows == IF diffOnly THEN SelectSeq(tableRows, HasDiff) ELSE tableRows
  IN IF displayRows = <<>> THEN <<>>
     ELSE <<[title |-> title, rows |-> displayRows,
             diffCount |-> Len(SelectSeq(tableRows, HasDiff))]>>

securityFields ==
  <<"threatIntelligenceFeeds", "aiThreatDetection", "googleSafeBrowsing",
    "cryptojacking", "dnsRebinding", "idnHomographs", "typosquatting", "dga",
    "nrd", "ddns", "parking", "csam">>
privacyFields == <<"disguisedTrackers", "allowAffiliate">>
parentalFields == <<"safeSearch", "youtubeRestrictedMode", "blockBypass">>
settingsFields == <<"logs", "blockPage", "performance", "web3">>

\* the rows of each table before createTable filters them, in table order
TableRows(data, title) ==
  CASE title = "Security Settings" -> compareSettings(data, "security", securityFields)
    [] title = "Privacy Settings" -> compareSettings(data, "privacy", privacyFields)
    [] title = "Blocklists" -> compareListItems(data, "privacy", "blocklists", FALSE)
    [] title = "Native Tracking Protection" ->
         compareListItems(data, "privacy", "natives", FALSE)
    [] title = "Parental Control Settings" ->
         compareSettings(data, "parentalControl", parentalFields)
    [] title = "Blocked Services" ->
         compareListItems(data, "parentalControl", "services", TRUE)
    [] title = "Blocked Categories" ->
         compareListItems(data, "parentalControl", "categories", TRUE)
    [] title = "General Settings" -> compareNestedSettings(data, "settings", settingsFields)
    [] title = "Denylist" -> compareDenylistAllowlist(data, "denylist")
    [] title = "Allowlist" -> compareDenylistAllowlist(data, "allowlist")

\* the tables of each section, in the order generateDiffTables builds them
TitlesOf(section) ==
  CASE section = "security" -> <<"Security Settings">>
    [] section = "privacy" ->
         <<"Privacy Settings", "Blocklists", "Native Tracking Protection">>
    [] section = "parental" ->
         <<"Parental Control Settings", "Blocked Services", "Blocked Categories">>
    [] section = "settings" -> <<"General Settings">>
    [] section = "lists" -> <<"Denylist", "Allowlist">>
    [] section = "all" ->
         <<"Security Settings", "Privacy Settings", "Blocklists",
           "Native Tracking Protection", "Parental Control Settings",
           "Blocked Services", "Blocked Categories", "General Settings",
           "Denylist", "Allowlist">>
DiffSections == {"all", "security", "privacy", "parental", "settings", "lists"}

RECURSIVE TablesFor(_, _, _)
TablesFor(data, titles, diffOnly) ==
  IF titles = <<>> THEN <<>>
  ELSE createTable(Head(titles), TableRows(data, Head(titles)), diffOnly)
         \o TablesFor(data, Tail(titles), diffOnly)

generateDiffTables(data, section, diffOnly) == TablesFor(data, TitlesOf(section), diffOnly)

\* the counts formatDiffAsText prints under a table's title: total, differences
reportedCounts(table) ==
  IF table.diffCount > 0 THEN <<Len(table.rows), table.diffCount>> ELSE <<>>

\* --- the snapshots the diff engine is applied to
\* ProfileDiffData with the given sections, the others empty
DiffData(sections) ==
  Obj([i \in 1..6 |->
         LET name == <<"denylist", "allowlist", "security", "privacy",
                       "parentalControl", "settings">>[i]
         IN KV(name, IF name \in DOMAIN sections THEN sections[name] ELSE Obj(<<>>))])

Drop == Obj(<<KV("ip", Bool(TRUE)), KV("domain", Bool(FALSE))>>)
DropReordered == Obj(<<KV("domain", Bool(FALSE)), KV("ip", Bool(TRUE))>>)
ItemA == Obj(<<KV("id", Str("oisd"))>>)
ItemB == Obj(<<KV("id", Str("tiktok")), KV("active", Bool(TRUE))>>)
ItemBOff == Obj(<<KV("id", Str("tiktok")), KV("active", Bool(FALSE))>>)

SecurityValues ==
  {Obj(<<KV("csam", Bool(TRUE))>>),
   Obj(<<KV("csam", Bool(FALSE)), KV("dga", Bool(TRUE))>>),
   Obj(<<KV("csam", Arr(<<ItemA, ItemB>>))>>),
   Obj(<<KV("csam", Arr(<<ItemB, ItemA>>))>>),
   Obj(<<KV("csam", Arr(<<ItemB, ItemB>>))>>)}
PrivacyValues ==
  {Obj(<<KV("allowAffiliate", Bool(TRUE)), KV("blocklists", Arr(<<ItemA>>))>>),
   Obj(<<KV("blocklists", Arr(<<ItemB, ItemA>>)), KV("natives", Arr(<<ItemA>>))>>)}
ParentalValues ==
  {Obj(<<KV("safeSearch", Bool(TRUE)), KV("services", Arr(<<ItemB>>))>>),
   Obj(<<KV("services", Arr(<<ItemBOff>>)), KV("categories", Arr(<<ItemA>>))>>)}
SettingsValues ==
  {Obj(<<KV("logs", Obj(<<KV("enabled", Bool(TRUE)), KV("drop", Drop)>>)),
         KV("web3", Bool(TRUE))>>),
   Obj(<<KV("logs", Obj(<<KV("drop", DropReordered), KV("enabled", Bool(TRUE))>>)),
         KV("web3", Bool(TRUE))>>),
   Obj(<<KV("logs", Obj(<<KV("enabled", Bool(TRUE)), KV("retention", Num(90))>>)),
         KV("performance", Obj(<<KV("ecs", Bool(TRUE))>>))>>),
   Obj(<<KV("logs", Obj(<<KV("enabled", Bool(FALSE)), KV("location", Str("eu"))>>)),
         KV("blockPage", Obj(<<KV("enabled", Bool(TRUE))>>)), KV("web3", Bool(FALSE))>>),
   Obj(<<KV("performance", Obj(<<KV("ecs", Bool(FALSE)), KV("cacheBoost", Bool(TRUE))>>)),
         KV("logs", Drop)>>)}
ListValues ==
  {Obj(<<KV("a.com", Bool(TRUE))>>),
   Obj(<<KV("a.com", Bool(FALSE))>>),
   Obj(<<KV("a.com", Bool(TRUE)), KV("b.com", Bool(FALSE))>>),
   Obj(<<KV("b.com", Bool(FALSE)), KV("a.com", Bool(TRUE))>>)}

\* a profile with nothing set, or with one section or one list set
DiffDatas ==
  {DiffData(<<>>)}
    \cup {DiffData([security |-> v]) : v \in SecurityValues}
    \cup {DiffData([privacy |-> v]) : v \in PrivacyValues}
    \cup {DiffData([parentalControl |-> v]) : v \in ParentalValues}
    \cup {DiffData([settings |-> v]) : v \in SettingsValues}
    \cup {DiffData([denylist |-> v]) : v \in ListValues}
    \cup {DiffData([allowlist |-> v, denylist |-> v]) : v \in ListValues}

SnapshotSets == UNION {[1..n -> DiffDatas] : n \in MinProfiles..MaxProfiles}

\* --- settings whose nested objects hold more or fewer subfields
\* an object of the given properties, the undefined ones left out
Compact(kv) == Obj(SelectSeq(kv, LAMBDA e : e.v # Undef))

LogsValues ==
  {Undef,
   Obj(<<KV("enabled", Bool(TRUE))>>),
   Obj(<<KV("enabled", Bool(FALSE))>>),
   Obj(<<KV("enabled", Bool(TRUE)), KV("retention", Num(90))>>)}
BlockPageValues == {Undef, Obj(<<KV("enabled", Bool(TRUE))>>)}
PerformanceValues ==
  {Obj(<<KV("ecs", Bool(TRUE))>>),
   Obj(<<KV("ecs", Bool(TRUE)), KV("cacheBoost", Bool(TRUE))>>)}

NestedSettings ==
  {Compact(<<KV("logs", l), KV("blockPage", b), KV("performance", f)>>) :
     l \in LogsValues, b \in BlockPageValues, f \in PerformanceValues}

NestedSnapshotSets ==
  UNION {[1..n -> {DiffData([settings |-> v]) : v \in NestedSettings}] :
           n \in MinProfiles..MaxProfiles}

\* one of the two field row generators, called as generateDiffTables calls it
CompareFields ==
  /\ pc = "idle"
  /\ cmd = "none"
  /\ \E title \in {"Security Settings", "Privacy Settings",
                   "Parental Control Settings", "General Settings"} :
       /\ opts' = [section |-> title, diffOnly |-> FALSE]
       /\ rows' = TableRows(snapshots, title)
  /\ cmd' = "compareSettings"
  /\ pc' = "done"
  /\ UNCHANGED <<snapshots, tables, sourceData, payload, validation, thrown, calls, faults>>
  /\ UNCHANGED <<syncVars, vendorVars, copyVars, shellVars>>

GenerateDiffTables ==
  /\ pc = "idle"
  /\ cmd = "none"
  /\ \E section \in DiffSections, diffOnly \in BOOLEAN :
       /\ opts' = [section |-> section, diffOnly |-> diffOnly]
       /\ tables' = generateDiffTables(snapshots, section, diffOnly)
  /\ cmd' = "generateDiffTables"
  /\ pc' = "done"
  /\ UNCHANGED <<snapshots, rows, sourceData, payload, validation, thrown, calls, faults>>
  /\ UNCHANGED <<syncVars, vendorVars, copyVars, shellVars>>

\* ------------------------------------------------------------ HTTP adapter
\* a response body: the empty text, a text JSON.parse rejects, or the text of
\* a JSON value
NoText == [empty |-> TRUE, valid |-> TRUE, json |-> Undef]
BadText == [empty |-> FALSE, valid |-> FALSE, json |-> Undef]
Text(value) == [empty |-> FALSE, valid |-> TRUE, json |-> value]

\* what a call returns or throws
Returned(status, data) == [threw |-> FALSE, message |-> "", status |-> status, data |-> data]
Threw(message) == [threw |-> TRUE, message |-> message, status |-> 0, data |-> Undef]

SyntaxErrorMsg == "Unexpected token in JSON"
RequestFailedMsg == "Request failed"

\* a || b on two property values that are strings or undefined
Truthy(val) == val.t = "str" /\ val.s # ""

firstMessage_codeFirst(error) ==
  IF Truthy(Get(error, "code")) THEN Get(error, "code").s
  ELSE IF Truthy(Get(error, "message")) THEN Get(error, "message").s
  ELSE RequestFailedMsg

\* errors?.[0]?.message || errors?.[0]?.code || 'Request failed'
firstMessage(error) ==
  IF Truthy(Get(error, "message")) THEN Get(error, "message").s
  ELSE IF Truthy(Get(error, "code")) THEN Get(error, "code").s
  ELSE RequestFailedMsg

parseApiResponse(responseOk, status, text) ==
  IF status = 204 THEN Returned(204, Obj(<<>>))
  ELSE IF ~text.valid THEN Threw(SyntaxErrorMsg)
  ELSE LET data == IF text.empty THEN Obj(<<>>) ELSE text.json
           errors == Get(data, "errors")
           hasErrors == errors.t = "arr" /\ Len(errors.kv) > 0
       IN IF ~responseOk \/ hasErrors
          THEN Threw(firstMessage(IF hasErrors THEN errors.kv[1].v ELSE Undef))
          ELSE Returned(status, data)

\* --- the responses the adapter is applied to
ErrorEntries ==
  {Obj(<<KV("code", Str("notFound")), KV("message", Str("Not found"))>>),
   Obj(<<KV("code", Str("notFound"))>>),
   Obj(<<KV("message", Str("")), KV("code", Str("invalid"))>>),
   Obj(<<KV("message", Str("rateLimit"))>>),
   Obj(<<>>)}
ErrorLists ==
  {<<>>} \cup {<<e>> : e \in ErrorEntries}
    \cup {<<e, Obj(<<KV("message", Str("second"))>>)>> : e \in ErrorEntries}
Bodies ==
  {NoText, BadText, Text(Obj(<<>>)), Text(Obj(<<KV("data", Obj(<<KV("id", Str("abc123"))>>))>>))}
    \cup {Text(Obj(<<KV("errors", Arr(l))>>)) : l \in ErrorLists}
    \cup {Text(Obj(<<KV("data", Arr(<<>>)), KV("errors", Arr(l))>>)) : l \in ErrorLists}
Statuses == {200, 201, 204, 400, 404, 429, 500, 502}

\* Response.ok of fetch
ResponseOk(status) == status >= 200 /\ status <= 299

NoResponse == [status |-> 0, text |-> NoText]
NotParsed == Threw("")

\* defaultHttpAdapter.request once fetch answered
ParseResponse ==
  /\ pc = "idle"
  /\ cmd = "none"
  /\ parsed' = parseApiResponse(ResponseOk(response.status), response.status, response.text)
  /\ cmd' = "parseApiResponse"
  /\ pc' = "done"
  /\ UNCHANGED <<response, exitCode, opts, thrown, calls, faults>>
  /\ UNCHANGED <<syncVars, vendorVars, copyVars, pureVars, verifyVars, writtenKeys, webVars>>

\* ------------------------------------------ domain manager over the adapter
\* err instanceof Error ? err.message : String(err), for what the adapter threw
ErrorText(outcome) == <<outcome.message>>

\* what api.removeDomain / updateDomainStatus / addDomain gives its caller for
\* the adapter's outcome: request() returns response.data or lets the error
\* through
AnswerOf(outcome) == IF outcome.threw THEN ErrorText(outcome) ELSE Ok

\* the responses the vendor gives to a write of the domain manager
ManageStatuses == {200, 204, 404, 500}
ManageBodies ==
  {NoText,
   Text(Obj(<<>>)),
   Text(Obj(<<KV("errors", Arr(<<Obj(<<KV("code", Str("notFound"))>>)>>))>>)),
   Text(Obj(<<KV("errors", Arr(<<Obj(<<KV("code", Str("notFound")),
                                       KV("message", Str("Not found"))>>)>>))>>))}

\* one turn of manageDomain's loop, the call going through defaultHttpAdapter
ManageApplyHttp ==
  /\ pc = "apply"
  /\ cmd = "manage"
  /\ \E answered \in [status : ManageStatuses, text : ManageBodies] :
       LET p == profiles[opIdx]
           outcome == parseApiResponse(ResponseOk(answered.status), answered.status,
                                       answered.text)
           answer == AnswerOf(outcome)
           result == ActionResult(opts.action, answer)
           operationResult == [profileId |-> p, success |-> result.success,
                               error |-> result.error]
       IN /\ response' = answered
          /\ parsed' = outcome
          /\ lastCall' = [op |-> opIdx, outcome |-> answer]
          /\ lists' = IF answer = Ok THEN ApplyAction(lists, p, opts) ELSE lists
          /\ results' = Append(results, operationResult)
          /\ counters' = IF result.success
                         THEN [counters EXCEPT !.successCount = @ + 1]
                         ELSE [counters EXCEPT !.failCount = @ + 1]
          /\ progress' = Append(progress, operationResult)
          /\ pc' = ManageLoopNext(opIdx, Len(profiles), result.success)
  /\ calls' = [calls EXCEPT !.write = @ + 1]
  /\ attemptsMade' = [attemptsMade EXCEPT ![opIdx] = @ + 1]
  /\ opIdx' = opIdx + 1
  /\ UNCHANGED <<liveProfiles, edits, faults, cmd, opts, thrown, profiles, fetchIdx,
                 allData, analysis, operations, attempt, paused>>
  /\ UNCHANGED copyVars
  /\ UNCHANGED <<pureVars, exitCode, verifyVars, writtenKeys, webVars>>

\* ------------------------------------------- clone verification: parental
\* Object.fromEntries(list.map(x => [x.id, x.active ?? false])): a repeated
\* id keeps its first position and takes the last value
RECURSIVE activeMap(_, _)
activeMap(items, acc) ==
  IF items = <<>> THEN Obj(acc)
  ELSE LET id == Get(Head(items).v, "id").s
           active == IF Get(Head(items).v, "active").t = "undef" THEN Bool(FALSE)
                     ELSE Get(Head(items).v, "active")
           hits == {i \in 1..Len(acc) : acc[i].k = id}
       IN activeMap(Tail(items),
            IF hits = {} THEN Append(acc, KV(id, active))
            ELSE [i \in 1..Len(acc) |-> IF i \in hits THEN KV(id, active) ELSE acc[i]])

\* (pc.services || []) and (pc.categories || [])
ItemsOf(control, field) ==
  IF Get(control, field).t = "arr" THEN Get(control, field).kv ELSE <<>>

\* JSON.stringify(sMap) === JSON.stringify(dMap)
sameActiveMap(sMap, dMap) == Stringify(sMap) = Stringify(dMap)

\* the mismatches verifyClone's parental control block pushes
verifyParental(src, dst) ==
  LET sPc == Get(src, "parentalControl")
      dPc == Get(dst, "parentalControl")
      flags == SelectSeq(parentalFields, LAMBDA k : Get(sPc, k) # Get(dPc, k))
  IN IF sPc.t = "obj" /\ dPc.t = "obj"
     THEN [i \in 1..Len(flags) |-> "Parental Control flag"]
            \o (IF sameActiveMap(activeMap(ItemsOf(sPc, "services"), <<>>),
                                 activeMap(ItemsOf(dPc, "services"), <<>>))
                THEN <<>> ELSE <<"Parental Services mismatch">>)
            \o (IF sameActiveMap(activeMap(ItemsOf(sPc, "categories"), <<>>),
                                 activeMap(ItemsOf(dPc, "categories"), <<>>))
                THEN <<>> ELSE <<"Parental Categories mismatch">>)
     ELSE <<>>

\* --- the re-fetched profiles the block is applied to
ItemOn(id) == Obj(<<KV("id", Str(id)), KV("active", Bool(TRUE))>>)
ItemOff(id) == Obj(<<KV("id", Str(id)), KV("active", Bool(FALSE))>>)
ItemBare(id) == Obj(<<KV("id", Str(id))>>)
ActiveLists ==
  {<<>>, <<ItemOn("tiktok")>>, <<ItemOff("tiktok")>>, <<ItemBare("tiktok")>>,
   <<ItemOn("tiktok"), ItemOff("oisd")>>, <<ItemOff("oisd"), ItemOn("tiktok")>>,
   <<ItemOn("tiktok"), ItemOn("oisd")>>}
ParentalShapes ==
  {Obj(<<KV("safeSearch", Bool(TRUE))>>)}
    \cup {Obj(<<KV("safeSearch", Bool(s)), KV("services", Arr(l))>>) :
            s \in BOOLEAN, l \in ActiveLists}
    \cup {Obj(<<KV("categories", Arr(l)), KV("services", Arr(<<ItemOn("tiktok")>>))>>) :
            l \in ActiveLists}
Refetches ==
  {Obj(<<KV("name", Str("home"))>>)}
    \cup {Obj(<<KV("name", Str("home")), KV("parentalControl", control)>>) :
            control \in ParentalShapes}

NotFetched == [src |-> Undef, dst |-> Undef]

\* verifyClone's parental control block, once both profiles are re-fetched
VerifyParental ==
  /\ pc = "idle"
  /\ cmd = "none"
  /\ parentalDiffs' = verifyParental(refetched.src, refetched.dst)
  /\ cmd' = "verifyClone"
  /\ pc' = "done"
  /\ UNCHANGED <<refetched, exitCode, opts, thrown, calls, faults>>
  /\ UNCHANGED <<syncVars, vendorVars, copyVars, pureVars, netVars, writtenKeys, webVars>>

\* --------------------------------------------- schema gate and pass-through
\* the objects reconstructPayload assigns whole: payload.settings.logs,
\* payload.settings.blockPage and payload.settings.performance
PassedThrough == {"settings.logs", "settings.blockPage", "settings.performance"}

\* the keys reconstructPayload reads by name from the section at path
ReadByName(path) ==
  CASE path = "root" ->
         {"name", "security", "privacy", "parentalControl", "denylist", "allowlist",
          "settings"}
    [] path = "security" -> KNOWN_FIELDS("security")
    [] path = "privacy" -> KNOWN_FIELDS("privacy")
    [] path = "parentalControl" ->
         {"safeSearch", "youtubeRestrictedMode", "blockBypass", "services", "categories"}
    [] path = "settings" -> {"logs", "blockPage", "performance", "web3", "bav"}
    [] OTHER -> {}

\* sourceData has the section at path, for the three objects under settings
HasNested(src, path) ==
  /\ "settings" \in src["root"]
  /\ (CASE path = "settings.logs" -> "logs"
        [] path = "settings.blockPage" -> "blockPage"
        [] path = "settings.performance" -> "performance") \in src["settings"]

\* the fields of sourceData that reconstructPayload copies into the payload,
\* as pairs of section path and key
copiedFields(src) ==
  UNION {{<<path, k>> : k \in src[path] \cap ReadByName(path)} :
           path \in {q \in PathSet \ PassedThrough : HasSection(src, q)}}
    \cup UNION {{<<path, k>> : k \in src[path]} :
                  path \in {q \in PassedThrough : HasNested(src, q)}}

\* the known keys of each section a source of the gate may hold
KeysAt(path) ==
  CASE path = "root" -> {"name", "id"}
    [] path = "security" -> {"csam", "tlds"}
    [] path = "settings" -> {"web3"}
    [] path = "settings.logs" -> {"enabled", "retention"}
    [] path = "settings.blockPage" -> {"enabled"}
    [] path = "settings.performance" -> {"ecs"}
    [] OTHER -> {}

GatePaths == {"security", "settings"} \cup PassedThrough

\* a profile with the sections of present, the sections of odd holding an
\* unknown key besides their known ones
GateSource(present, odd) ==
  [path \in PathSet \cup PassedThrough |->
     IF path \in present \cup {"root"}
     THEN KeysAt(path)
            \cup (IF path = "root" THEN present \cap {"security", "settings"} ELSE {})
            \cup (IF path = "settings"
                  THEN {"logs" : q \in present \cap {"settings.logs"}}
                         \cup {"blockPage" : q \in present \cap {"settings.blockPage"}}
                         \cup {"performance" : q \in present \cap {"settings.performance"}}
                  ELSE {})
            \cup (IF path \in odd THEN {"mystery"} ELSE {})
     ELSE {}]

GateSources ==
  {GateSource(s.present, s.odd) :
     s \in {t \in [present : SUBSET GatePaths, odd : SUBSET (GatePaths \cup {"root"})] :
              /\ t.odd \subseteq t.present \cup {"root"}
              /\ t.present \cap PassedThrough # {} => "settings" \in t.present}}

\* copyProfile from the fetched source to the payload it sends: the schema
\* validation, the gate, and reconstructPayload when the gate lets it through
ValidateAndReconstruct ==
  /\ pc = "idle"
  /\ cmd = "none"
  /\ validation' = validateApiSchema(source)
  /\ writtenKeys' = IF SchemaGate(validation', force) THEN {} ELSE copiedFields(source)
  /\ cmd' = "reconstructPayload"
  /\ pc' = IF SchemaGate(validation', force) THEN "failed" ELSE "done"
  /\ UNCHANGED <<sourceData, payload, snapshots, rows, tables, opts, thrown, calls, faults>>
  /\ UNCHANGED <<syncVars, vendorVars, copyVars, exitCode, netVars, verifyVars, webVars>>

\* ------------------------------------------------ dashboard: manage domain
\* the component's state before a submit
NoForm == [results |-> <<>>, error |-> NoError, isRunning |-> FALSE]
SelectProfileMsg == <<"Please select at least one profile">>

SuccessMessage(action) ==
  CASE action = "add" -> <<"Added successfully">>
    [] action = "remove" -> <<"Removed successfully">>
    [] action = "enable" -> <<"Enabled successfully">>
    [] action = "disable" -> <<"Disabled successfully">>

\* ManageDomain.performAction's result for the vendor's answer
performAction(action, answer) ==
  IF answer = Ok THEN [success |-> TRUE, message |-> SuccessMessage(action)]
  ELSE [success |-> FALSE, message |-> answer]

\* handleSubmit up to its loop, the profiles of the context being the account's
HandleSubmit ==
  /\ pc = "idle"
  /\ \E ids \in SUBSET Range(liveProfiles), action \in DomainActions,
        lt \in ListTypeSet, d \in Domains :
       /\ cmd' = "dashboardManage"
       /\ opts' = [profileIds |-> ids, action |-> action, listType |-> lt, domain |-> d]
       /\ IF ids = {}
          THEN /\ manageForm' = [NoForm EXCEPT !.error = SelectProfileMsg]
               /\ pc' = "done"
               /\ UNCHANGED profiles
          ELSE /\ manageForm' = [NoForm EXCEPT !.isRunning = TRUE]
               /\ profiles' = FilterProfiles(liveProfiles, ids)
               /\ pc' = "apply"
  /\ UNCHANGED <<thrown, calls, faults, fetchIdx, allData, analysis, operations, opIdx,
                 attempt, results, counters, progress, attemptsMade, lastCall, paused>>
  /\ UNCHANGED vendorVars
  /\ UNCHANGED copyVars
  /\ UNCHANGED <<pureVars, exitCode, netVars, verifyVars, writtenKeys, auth, inflight, clicks>>

\* one turn of handleSubmit's loop
PerformAction ==
  /\ pc = "apply"
  /\ cmd = "dashboardManage"
  /\ \E answer \in Answers(faults, ManageFaults) :
       LET p == profiles[opIdx]
           result == performAction(opts.action, answer)
           operationResult == [profileId |-> p, success |-> result.success,
                               message |-> result.message]
       IN /\ faults' = Spend(faults, answer)
          /\ lastCall' = [op |-> opIdx, outcome |-> answer]
          /\ lists' = IF answer = Ok THEN ApplyAction(lists, p, opts) ELSE lists
          /\ manageForm' = [manageForm EXCEPT !.results = Append(@, operationResult),
                                              !.isRunning = opIdx # Len(profiles)]
          /\ pc' = IF opIdx = Len(profiles) THEN "done" ELSE "apply"
  /\ calls' = [calls EXCEPT !.write = @ + 1]
  /\ opIdx' = opIdx + 1
  /\ UNCHANGED <<liveProfiles, edits, cmd, opts, thrown, profiles, fetchIdx, allData,
                 analysis, operations, attempt, results, counters, progress, attemptsMade,
                 paused>>
  /\ UNCHANGED copyVars
  /\ UNCHANGED <<pureVars, exitCode, netVars, verifyVars, writtenKeys, auth, inflight, clicks>>

\* ------------------------------------------------ dashboard: AuthProvider
NoKey == 0
ApiKeys == {1, 2, 3}
\* the keys the vendor knows
ValidKeys == {1, 2}
InvalidKeyMsg == <<"Invalid API key">>

\* the profiles the vendor lists for a key
AccountProfiles(key) ==
  CASE key = 1 -> <<1>>
    [] key = 2 -> <<2, 3>>
    [] OTHER -> <<>>

\* useState's initial values, the stored key read from localStorage
InitialAuth(storedKey) ==
  [apiKey |-> storedKey, profiles |-> <<>>, isLoading |-> TRUE, error |-> NoError,
   clientKey |-> storedKey, storedKey |-> storedKey]

Request(kind, key) == [kind |-> kind, key |-> key, isMounted |-> TRUE]

RemoveAt(seq, i) == SubSeq(seq, 1, i - 1) \o SubSeq(seq, i + 1, Len(seq))

\* the effect's cleanup: isMounted = false in the closure of the earlier run
Cleanup(pending) ==
  [i \in 1..Len(pending) |->
     IF pending[i].kind = "effect" THEN [pending[i] EXCEPT !.isMounted = FALSE]
     ELSE pending[i]]

\* the effect on [apiKey, fetchProfiles], run after apiKey became key: the
\* requests in flight and isLoading after it
EffectRequests(pending, key) ==
  Cleanup(pending) \o (IF key # NoKey THEN <<Request("effect", key)>> ELSE <<>>)
EffectLoading(loading, key) == IF key # NoKey THEN loading ELSE FALSE

\* the provider is not in use
InitNoWeb ==
  /\ manageForm = NoForm
  /\ auth = InitialAuth(NoKey)
  /\ inflight = <<>>
  /\ clicks = 0

\* the Dashboard is rendered: a key is set and nothing is loading
DashboardShown == auth.apiKey # NoKey /\ ~auth.isLoading
\* the LoginForm is rendered
LoginFormShown == auth.apiKey = NoKey /\ ~auth.isLoading

\* what no action of the provider touches
AuthFrame ==
  /\ UNCHANGED <<opts, pc, thrown, calls, faults>>
  /\ UNCHANGED <<syncVars, vendorVars, copyVars, pureVars>>
  /\ UNCHANGED <<exitCode, netVars, verifyVars, writtenKeys>>

\* login(key) up to its await of validateApiKey
Login ==
  /\ LoginFormShown
  /\ clicks < MaxClicks
  /\ \E key \in ApiKeys :
       /\ auth' = [auth EXCEPT !.isLoading = TRUE, !.error = NoError]
       /\ inflight' = Append(inflight, Request("validate", key))
  /\ clicks' = clicks + 1
  /\ cmd' = "auth"
  /\ UNCHANGED manageForm
  /\ AuthFrame

\* validateApiKey settles and login goes on to its await of fetchProfiles;
\* setApiKey makes the effect run again
LoginValidated ==
  /\ \E i \in 1..Len(inflight) :
       /\ inflight[i].kind = "validate"
       /\ \E isValid \in (IF inflight[i].key \in ValidKeys THEN BOOLEAN ELSE {FALSE}) :
            LET key == inflight[i].key
                rest == RemoveAt(inflight, i)
            IN IF isValid
               THEN /\ auth' = [auth EXCEPT !.clientKey = key, !.apiKey = key,
                                            !.storedKey = key]
                    /\ inflight' = Append(IF key # auth.apiKey
                                          THEN EffectRequests(rest, key) ELSE rest,
                                          Request("login", key))
               ELSE /\ auth' = [auth EXCEPT !.error = InvalidKeyMsg, !.isLoading = FALSE]
                    /\ inflight' = rest
  /\ UNCHANGED <<manageForm, clicks, cmd>>
  /\ AuthFrame

\* fetchProfiles once api.getProfiles(key) settled
fetchProfiles(state, key, ok) ==
  IF ok THEN [state EXCEPT !.profiles = AccountProfiles(key), !.error = NoError]
  ELSE [state EXCEPT !.error = ListFailedMsg]

\* a fetch of login, of the effect or of refreshProfiles settles, and its
\* caller goes on
FetchSettled ==
  /\ \E i \in 1..Len(inflight), ok \in BOOLEAN :
       LET req == inflight[i]
           fetched == fetchProfiles(auth, req.key, ok)
       IN /\ req.kind \in {"login", "effect", "refresh"}
          /\ auth' = IF req.kind = "login" \/ (req.kind = "effect" /\ req.isMounted)
                     THEN [fetched EXCEPT !.isLoading = FALSE]
                     ELSE fetched
          /\ inflight' = RemoveAt(inflight, i)
  /\ UNCHANGED <<manageForm, clicks, cmd>>
  /\ AuthFrame

\* logout(), and the effect run that setApiKey(null) brings
Logout ==
  /\ DashboardShown
  /\ clicks < MaxClicks
  /\ auth' = [auth EXCEPT !.clientKey = NoKey, !.apiKey = NoKey, !.profiles = <<>>,
                          !.storedKey = NoKey,
                          !.isLoading = EffectLoading(@, NoKey)]
  /\ inflight' = EffectRequests(inflight, NoKey)
  /\ clicks' = clicks + 1
  /\ cmd' = "auth"
  /\ UNCHANGED manageForm
  /\ AuthFrame

\* refreshProfiles() up to its await
RefreshProfiles ==
  /\ DashboardShown
  /\ clicks < MaxClicks
  /\ inflight' = Append(inflight, Request("refresh", auth.apiKey))
  /\ clicks' = clicks + 1
  /\ cmd' = "auth"
  /\ UNCHANGED <<auth, manageForm>>
  /\ AuthFrame

NextAuth ==
  \/ Login
  \/ LoginValidated
  \/ FetchSettled
  \/ Logout
  \/ RefreshProfiles

\* ------------------------------------------------------------ CLI commands
CliCommands == {"manage", "sync", "diff", "copy"}

\* the command's action has nothing left to run
CommandEnded == cmd \in CliCommands /\ pc \in {"done", "failed", "copyDone"}

\* the code the process ends with: 1 from the catch block and from the
\* command's own test of the result, 0 when the action returns
ExitStatus ==
  IF thrown # NoError THEN 1
  ELSE CASE cmd = "manage" -> IF counters.failCount > 0 THEN 1 ELSE 0
         [] cmd = "copy" -> IF ~copyResult.success THEN 1 ELSE 0
         [] OTHER -> 0

CommandExit ==
  /\ CommandEnded
  /\ exitCode = NotExited
  /\ exitCode' = ExitStatus
  /\ UNCHANGED <<cmd, opts, pc, thrown, calls, faults>>
  /\ UNCHANGED <<syncVars, vendorVars, copyVars, pureVars, netVars, verifyVars, writtenKeys, webVars>>

\* ---------------------------------------------------------- specification
\* no pure function has been applied
InitNoHttp ==
  /\ response = NoResponse
  /\ parsed = NotParsed

InitNoVerify ==
  /\ refetched = NotFetched
  /\ parentalDiffs = <<>>
  /\ writtenKeys = {}
  /\ InitNoWeb

InitNoPure ==
  /\ InitNoHttp
  /\ InitNoVerify
  /\ sourceData = NoObject
  /\ payload = NoObject
  /\ validation = <<>>
  /\ snapshots = <<>>
  /\ rows = <<>>
  /\ tables = <<>>

\* no vendor state is involved
InitNoVendor ==
  /\ liveProfiles = <<>>
  /\ lists = [p \in ProfileIds |-> EmptyLists]
  /\ edits = 0
  /\ faults = 0

\* no copy is running and none has run
InitNoCopy ==
  /\ source = NoSource
  /\ srcRewrites = <<>>
  /\ dest = NoDest
  /\ force = FALSE
  /\ copyResult = NoResult
  /\ steps = <<>>
  /\ copyLog = <<>>
  /\ rwIdx = 1
  /\ rwCount = 0
  /\ rwSent = <<>>

Init == InitVendor /\ InitIdle /\ InitNoCopy /\ InitNoPure /\ edits = MaxFaultyEntries /\ faults = MaxFaults

\* the domain manager, on an account whose lists are empty
InitManage == InitVendor /\ InitIdle /\ InitNoCopy /\ InitNoPure /\ edits = 0 /\ faults = MaxFaults

NextManage ==
  \/ ManageStart
  \/ ManageApply

SpecManage == InitManage /\ [][NextManage]_vars

\* the dashboard's domain form, on an account whose lists are empty
InitDashboardManage ==
  InitVendor /\ InitIdle /\ InitNoCopy /\ InitNoPure /\ edits = 0 /\ faults = MaxFaults

NextDashboardManage ==
  \/ HandleSubmit
  \/ PerformAction

SpecDashboardManage == InitDashboardManage /\ [][NextDashboardManage]_vars

\* the provider mounted, with or without a key in localStorage, after the
\* first run of its effect
InitAuth ==
  /\ InitIdle
  /\ InitNoVendor
  /\ InitNoCopy
  /\ sourceData = NoObject
  /\ payload = NoObject
  /\ validation = <<>>
  /\ snapshots = <<>>
  /\ rows = <<>>
  /\ tables = <<>>
  /\ InitNoHttp
  /\ refetched = NotFetched
  /\ parentalDiffs = <<>>
  /\ writtenKeys = {}
  /\ manageForm = NoForm
  /\ clicks = 0
  /\ \E storedKey \in {NoKey} \cup ValidKeys :
       /\ auth = [InitialAuth(storedKey) EXCEPT !.isLoading = EffectLoading(@, storedKey)]
       /\ inflight = EffectRequests(<<>>, storedKey)

SpecAuth == InitAuth /\ [][NextAuth]_vars

\* the domain manager with the shipped HTTP adapter between it and the vendor
InitManageHttp == InitVendor /\ InitIdle /\ InitNoCopy /\ InitNoPure /\ edits = 0 /\ faults = 0

NextManageHttp ==
  \/ ManageStart
  \/ ManageApplyHttp

SpecManageHttp == InitManageHttp /\ [][NextManageHttp]_vars

\* the runs in which the vendor answers every call
InitConsensus == InitVendor /\ InitIdle /\ InitNoCopy /\ InitNoPure /\ edits = MaxEntries /\ faults = 0

Next ==
  \/ VendorEdit
  \/ SyncStart
  \/ FetchPause
  \/ SyncFetch
  \/ SyncAnalyze
  \/ SyncAttempt
  \/ DiffStart
  \/ DiffFetch

Spec == Init /\ [][Next]_vars

SpecConsensus == InitConsensus /\ [][Next]_vars

\* the profile cloner, on a source profile with any of the shapes and rewrites
InitCopy ==
  /\ InitIdle
  /\ InitNoPure
  /\ liveProfiles = <<>>
  /\ lists = [p \in ProfileIds |-> EmptyLists]
  /\ edits = 0
  /\ faults = 0
  /\ source \in {src \in Sources : WellShaped(src)}
  /\ srcRewrites \in RewriteLists
  /\ dest = NoDest
  /\ force = FALSE
  /\ copyResult = NoResult
  /\ steps = <<>>
  /\ copyLog = <<>>
  /\ rwIdx = 1
  /\ rwCount = 0
  /\ rwSent = <<>>

NextCopy ==
  \/ CopyStart
  \/ CopyCreate
  \/ CopyRewritesFetch
  \/ CopyPut
  \/ CopyPost
  \/ CopyVerify

SpecCopy == InitCopy /\ [][NextCopy]_vars

\* the four CLI commands, on an account with one earlier entry and one
\* failing call, or on a source profile to clone
InitCli ==
  \/ InitVendor /\ InitIdle /\ InitNoCopy /\ InitNoPure /\ edits = 1 /\ faults = 1
  \/ InitCopy

NextCli ==
  \/ Next
  \/ NextManage
  \/ NextCopy
  \/ CommandExit

SpecCli == InitCli /\ [][NextCli]_vars

\* parseApiResponse, applied to each of the responses
InitParse ==
  /\ InitIdle
  /\ InitNoVendor
  /\ InitNoCopy
  /\ sourceData = NoObject
  /\ payload = NoObject
  /\ validation = <<>>
  /\ snapshots = <<>>
  /\ rows = <<>>
  /\ tables = <<>>
  /\ response \in [status : Statuses, text : Bodies]
  /\ parsed = NotParsed
  /\ InitNoVerify

NextParse == ParseResponse

SpecParse == InitParse /\ [][NextParse]_vars

\* verifyClone's parental control block, applied to each pair of profiles
InitVerify ==
  /\ InitIdle
  /\ InitNoVendor
  /\ InitNoCopy
  /\ sourceData = NoObject
  /\ payload = NoObject
  /\ validation = <<>>
  /\ snapshots = <<>>
  /\ rows = <<>>
  /\ tables = <<>>
  /\ InitNoHttp
  /\ refetched \in [src : Refetches, dst : Refetches]
  /\ parentalDiffs = <<>>
  /\ writtenKeys = {}
  /\ InitNoWeb

NextVerify == VerifyParental

SpecVerify == InitVerify /\ [][NextVerify]_vars

\* the schema gate and reconstructPayload, applied to each of the sources
\* with and without force
InitGate ==
  /\ InitIdle
  /\ InitNoVendor
  /\ InitNoPure
  /\ source \in GateSources
  /\ force \in BOOLEAN
  /\ srcRewrites = <<>>
  /\ dest = NoDest
  /\ copyResult = NoResult
  /\ steps = <<>>
  /\ copyLog = <<>>
  /\ rwIdx = 1
  /\ rwCount = 0
  /\ rwSent = <<>>

NextGate == ValidateAndReconstruct

SpecGate == InitGate /\ [][NextGate]_vars

\* reconstructPayload, applied to each of the profiles
InitPayload ==
  /\ InitIdle
  /\ InitNoVendor
  /\ InitNoCopy
  /\ sourceData \in SourceDatas
  /\ payload = NoObject
  /\ validation = <<>>
  /\ snapshots = <<>>
  /\ rows = <<>>
  /\ tables = <<>>
  /\ InitNoHttp
  /\ InitNoVerify

NextPayload == Reconstruct

SpecPayload == InitPayload /\ [][NextPayload]_vars

\* validateApiSchema, applied to each of the profiles
InitSchema ==
  /\ InitIdle
  /\ InitNoVendor
  /\ InitNoPure
  /\ source \in SchemaSources
  /\ srcRewrites = <<>>
  /\ dest = NoDest
  /\ force = FALSE
  /\ copyResult = NoResult
  /\ steps = <<>>
  /\ copyLog = <<>>
  /\ rwIdx = 1
  /\ rwCount = 0
  /\ rwSent = <<>>

NextSchema == Validate

SpecSchema == InitSchema /\ [][NextSchema]_vars

\* the diff engine's row generators and tables, applied to each of the
\* sets of snapshots
InitDiffTables ==
  /\ InitIdle
  /\ InitNoVendor
  /\ InitNoCopy
  /\ sourceData = NoObject
  /\ payload = NoObject
  /\ validation = <<>>
  /\ snapshots \in SnapshotSets
  /\ rows = <<>>
  /\ tables = <<>>
  /\ InitNoHttp
  /\ InitNoVerify

\* the table generator, on profiles that differ in their nested settings
InitNested ==
  /\ InitIdle
  /\ InitNoVendor
  /\ InitNoCopy
  /\ sourceData = NoObject
  /\ payload = NoObject
  /\ validation = <<>>
  /\ snapshots \in NestedSnapshotSets
  /\ rows = <<>>
  /\ tables = <<>>
  /\ InitNoHttp
  /\ InitNoVerify

NextNested == GenerateDiffTables

SpecNested == InitNested /\ [][NextNested]_vars

NextDiffTables ==
  \/ CompareFields
  \/ GenerateDiffTables

SpecDiffTables == InitDiffTables /\ [][NextDiffTables]_vars

\* ================================================================= claims
\* analyzeSync has returned its analysis
Analysed == cmd = "sync" /\ pc \in {"exec", "done"}

\* the profiles of data (by position) holding domain d in list lt with flag a
Holders(data, lt, d, a) ==
  {i \in 1..Len(data) : \E k \in 1..Len(data[i][lt]) :
     data[i][lt][k].id = d /\ data[i][lt][k].active = a}

DomainsOf(data, lt) ==
  UNION {{data[i][lt][k].id : k \in 1..Len(data[i][lt])} : i \in 1..Len(data)}

\* an ordered map read as a set of key/value pairs
Pairs(m) == {<<m[k].id, m[k].active>> : k \in 1..Len(m)}
Keys(m) == {m[k].id : k \in 1..Len(m)}
DistinctKeys(m) == \A j, k \in 1..Len(m) : m[j].id = m[k].id => j = k

\* C1: the canonical map's keys are exactly the domains some profile's list
\* holds, and a domain's value is true exactly when at least as many profiles
\* hold it active as hold it inactive (a tie is enabled, no domain no key).
C1_CanonicalIsMajority ==
  Analysed =>
    \A lt \in ListTypeSet :
      LET canonical == analysis[lt].canonical IN
      /\ DistinctKeys(canonical)
      /\ Keys(canonical) = DomainsOf(allData, lt)
      /\ \A k \in 1..Len(canonical) :
           canonical[k].active =
             (Cardinality(Holders(allData, lt, canonical[k].id, TRUE))
                >= Cardinality(Holders(allData, lt, canonical[k].id, FALSE)))

\* a tie, a 2:1 majority of inactive holders, and a list no profile fills
C1_Witness ==
  /\ Analysed
  /\ analysis.allowlist.canonical = <<>>
  /\ \E j, k \in 1..Len(analysis.denylist.canonical) :
       LET c == analysis.denylist.canonical IN
       /\ Cardinality(Holders(allData, "denylist", c[j].id, TRUE)) = 1
       /\ Cardinality(Holders(allData, "denylist", c[j].id, FALSE)) = 1
       /\ c[j].active = TRUE
       /\ Cardinality(Holders(allData, "denylist", c[k].id, FALSE)) = 1
       /\ Cardinality(Holders(allData, "denylist", c[k].id, TRUE)) = 0
       /\ c[k].active = FALSE

\* the operations of seq for profile p and domain d
OpsFor(seq, p, d) == {k \in 1..Len(seq) : seq[k].profileId = p /\ seq[k].domain = d}

\* C2: per profile and canonical domain there is exactly one add (with the
\* canonical flag) iff the profile lacks the domain, exactly one update (with
\* the canonical flag) iff it holds it with the other flag, and nothing iff it
\* holds it with the canonical flag; no operation is about anything else.
C2_PlanIsExact ==
  Analysed =>
    \A lt \in ListTypeSet :
      LET canonical == analysis[lt].canonical
          toAdd == analysis[lt].toAdd
          toUpdate == analysis[lt].toUpdate
      IN
      /\ \A i \in 1..Len(allData), k \in 1..Len(canonical) :
           LET p == allData[i].id
               d == canonical[k].id
               want == canonical[k].active
               lacks == i \notin (Holders(allData, lt, d, TRUE) \cup Holders(allData, lt, d, FALSE))
               differs == i \in Holders(allData, lt, d, ~want)
               adds == OpsFor(toAdd, p, d)
               upds == OpsFor(toUpdate, p, d)
           IN /\ Cardinality(adds) = (IF lacks THEN 1 ELSE 0)
              /\ Cardinality(upds) = (IF differs THEN 1 ELSE 0)
              /\ \A x \in adds : toAdd[x].shouldBeActive = want
              /\ \A x \in upds : toUpdate[x].shouldBeActive = want
      /\ \A x \in 1..Len(toAdd) :
           /\ toAdd[x].type = "add" /\ toAdd[x].listType = lt
           /\ toAdd[x].domain \in Keys(canonical)
           /\ \E i \in 1..Len(allData) : allData[i].id = toAdd[x].profileId
      /\ \A x \in 1..Len(toUpdate) :
           /\ toUpdate[x].type = "update" /\ toUpdate[x].listType = lt
           /\ toUpdate[x].domain \in Keys(canonical)
           /\ \E i \in 1..Len(allData) : allData[i].id = toUpdate[x].profileId

\* three profiles and one domain: one gets an add, one an update, one nothing
C2_Witness ==
  /\ Analysed
  /\ Len(allData) = 3
  /\ Len(analysis.denylist.canonical) = 1
  /\ Len(analysis.denylist.toAdd) = 1
  /\ Len(analysis.denylist.toUpdate) = 1

\* the lists a fresh analysis would fetch for the analysed profiles
Refetched == [i \in 1..Len(allData) |-> getProfileListData(allData[i].id)]

AllApplied ==
  /\ cmd = "sync" /\ pc = "done"
  /\ ~opts.dryRun /\ opts.listType = "both"
  /\ \A k \in 1..Len(results) : results[k].success

\* C3: once every planned operation of a sync of both lists has succeeded,
\* every analysed profile holds exactly the canonical entries, and a second
\* analysis gives the same canonical maps and nothing to add or update.
C3_SyncConverges ==
  AllApplied =>
    \A lt \in ListTypeSet :
      /\ \A i \in 1..Len(allData) :
           /\ Pairs(Refetched[i][lt]) = Pairs(analysis[lt].canonical)
           /\ DistinctKeys(Refetched[i][lt])
      /\ Pairs(AnalysisOf(Refetched)[lt].canonical) = Pairs(analysis[lt].canonical)
      /\ AnalysisOf(Refetched)[lt].toAdd = <<>>
      /\ AnalysisOf(Refetched)[lt].toUpdate = <<>>

\* a run that applied an add and an update in the denylist and an operation
\* in the allowlist
C3_Witness ==
  /\ AllApplied
  /\ analysis.denylist.toAdd # <<>>
  /\ analysis.denylist.toUpdate # <<>>
  /\ analysis.allowlist.toAdd # <<>>
  /\ Len(results) = Len(operations)

\* the live profiles an explicit id list names
Matched == {p \in Range(liveProfiles) : p \in opts.profileIds}
ResolvedCount == IF opts.profileIds = {} THEN Len(liveProfiles) ELSE Cardinality(Matched)
NoneMatches == opts.profileIds # {} /\ Matched = {}
IsNoneFound(msg) == Includes(msg, <<"None of the specified profiles found">>)
IsTooFew(msg) == Includes(msg, <<"Need at least 2 profiles">>)

\* C4: once the profile listing has answered, analyzeSync and diffProfiles
\* throw 'None of the specified profiles found' exactly when explicit ids match
\* no live profile and 'Need at least 2 profiles' exactly when otherwise fewer
\* than two profiles are resolved; the run then ends having listed once,
\* fetched no profile and written nothing.
C4_PreconditionErrors ==
  (cmd \in {"sync", "diff"} /\ thrown # ListFailedMsg) =>
    /\ IsNoneFound(thrown) <=> NoneMatches
    /\ IsTooFew(thrown) <=> (~NoneMatches /\ ResolvedCount < 2)
    /\ (IsNoneFound(thrown) \/ IsTooFew(thrown)) =>
         /\ pc = "failed"
         /\ calls = [list |-> 1, fetch |-> 0, write |-> 0]
         /\ allData = <<>> /\ results = <<>>

\* a diff asked for one live profile of three: too few, though ids match
C4_Witness ==
  /\ cmd = "diff"
  /\ Len(liveProfiles) = 3
  /\ Cardinality(Matched) = 1
  /\ IsTooFew(thrown)
  /\ pc = "failed"

\* the write call a step issues: the index of its operation, else 0
Called ==
  IF calls'.write = calls.write THEN 0
  ELSE CHOOSE k \in 1..Len(attemptsMade) : attemptsMade'[k] # attemptsMade[k]

\* C5: no operation is called more than 3 times; a repeated call follows a
\* rate-limited failure of the same operation with no call in between; no
\* call goes back to an earlier operation; and an operation whose call failed
\* otherwise, or failed rate-limited for the third time, is recorded as failed
\* with the loop at the next operation.
C5_RetryDiscipline ==
  [][ (calls'.write # calls.write) =>
        /\ calls'.write = calls.write + 1
        /\ \E k \in 1..Len(attemptsMade) :
             attemptsMade' = [attemptsMade EXCEPT ![k] = @ + 1]
        /\ attemptsMade'[Called] <= 3
        /\ \A j \in (Called + 1)..Len(attemptsMade) : attemptsMade[j] = 0
        /\ attemptsMade[Called] > 0 =>
             (lastCall.op = Called /\ Includes(lastCall.outcome, <<"rateLimit">>))
        /\ lastCall'.op = Called
        /\ (/\ lastCall'.outcome # Ok
            /\ (~Includes(lastCall'.outcome, <<"rateLimit">>) \/ attemptsMade'[Called] = 3))
           => /\ Len(results') = Called
              /\ results'[Called].success = FALSE
              /\ results'[Called].error = lastCall'.outcome
              /\ opIdx' = Called + 1
        /\ (/\ Includes(lastCall'.outcome, <<"rateLimit">>)
            /\ attemptsMade'[Called] < 3)
           => /\ results' = results
              /\ opIdx' = Called
     ]_vars

\* an operation given up after three rate-limited calls, and the next one called
C5_Witness ==
  /\ pc \in {"exec", "done"}
  /\ Len(attemptsMade) >= 2
  /\ attemptsMade[1] = 3
  /\ results[1].success = FALSE
  /\ attemptsMade[2] = 1

\* the operations of seq with the given type, counted
CountType(seq, t) == Cardinality({k \in 1..Len(seq) : seq[k].type = t})
CountResults(t, ok) ==
  Cardinality({k \in 1..Len(results) :
                 results[k].operation.type = t /\ results[k].success = ok})

\* the operations a target selects, by list
Selected(lt) == opts.listType \in {"both", lt}
SelectedCount(t) ==
  (IF Selected("denylist")
   THEN CountType(analysis.denylist.toAdd \o analysis.denylist.toUpdate, t) ELSE 0)
  + (IF Selected("allowlist")
     THEN CountType(analysis.allowlist.toAdd \o analysis.allowlist.toUpdate, t) ELSE 0)

\* C6: a non-dry-run executeSync ends with one result per selected operation
\* in list order, the four counters adding up by type, a retried success
\* counted once, every operation called whatever failed before it, and
\* onProgress called once per operation with completed = 1, 2, ..., total;
\* until then the loop is inside the list and inside the retry budget.
C6_ResultPerOperation ==
  (cmd = "sync" /\ ~opts.dryRun) =>
    /\ pc = "exec" =>
         /\ opIdx \in 1..Len(operations)
         /\ attempt < 3
         /\ Len(results) = opIdx - 1
    /\ pc = "done" =>
         /\ Len(operations) = SelectedCount("add") + SelectedCount("update")
         /\ Len(results) = Len(operations)
         /\ \A k \in 1..Len(results) :
              /\ results[k].operation = operations[k]
              /\ attemptsMade[k] >= 1
              /\ results[k].success <=> results[k].error = NoError
         /\ counters.addSuccess + counters.addFail = SelectedCount("add")
         /\ counters.updateSuccess + counters.updateFail = SelectedCount("update")
         /\ counters.addSuccess = CountResults("add", TRUE)
         /\ counters.addFail = CountResults("add", FALSE)
         /\ counters.updateSuccess = CountResults("update", TRUE)
         /\ counters.updateFail = CountResults("update", FALSE)
         /\ progress = [k \in 1..Len(operations) |->
                          [completed |-> k, total |-> Len(operations)]]

\* a failed add, then an update that succeeded at its second call
C6_Witness ==
  /\ cmd = "sync" /\ pc = "done"
  /\ Len(results) >= 2
  /\ \E j, k \in 1..Len(results) :
       /\ j < k
       /\ ~results[j].success /\ results[j].operation.type = "add"
       /\ results[k].success /\ results[k].operation.type = "update"
       /\ attemptsMade[k] = 2
       /\ counters.updateSuccess = 1

\* C7: a dry-run executeSync issues no write call, never reports progress and
\* returns four zero counters and no result, whatever the analysis holds.
C7_DryRunIsInert ==
  (cmd = "sync" /\ opts.dryRun) =>
    /\ calls.write = 0
    /\ pc # "exec"
    /\ progress = <<>>
    /\ results = <<>>
    /\ counters = NoCounters
    /\ attemptsMade = <<>>

\* a dry run over an analysis with an add and an update pending
C7_Witness ==
  /\ cmd = "sync" /\ opts.dryRun /\ pc = "done"
  /\ opts.listType = "both"
  /\ analysis.denylist.toAdd # <<>>
  /\ analysis.denylist.toUpdate # <<>>

\* a message holding '404' or, in any case, 'not found'
NotFoundClass(msg) ==
  \E i \in 1..Len(msg) : msg[i] \in {"404", "not found", "Not Found", "NOT FOUND"}

\* C8: in a turn of manageDomain, a not-found answer to a remove is reported
\* as a success with the note 'not found (already removed)' and counted as a
\* success; to an enable or disable, as a failure with error 'not found',
\* counted as a failure; any other error answer, whatever the action, as a
\* failure with the vendor's message unchanged.
C8_NotFoundByAction ==
  [][ (cmd = "manage" /\ calls'.write # calls.write /\ lastCall'.outcome # Ok) =>
        LET answer == lastCall'.outcome
            r == results'[Len(results')]
        IN /\ Len(results') = Len(results) + 1
           /\ (NotFoundClass(answer) /\ opts.action = "remove") =>
                /\ r.success = TRUE
                /\ r.error = <<"not found (already removed)">>
                /\ counters'.successCount = counters.successCount + 1
                /\ counters'.failCount = counters.failCount
           /\ (NotFoundClass(answer) /\ opts.action \in {"enable", "disable"}) =>
                /\ r.success = FALSE
                /\ r.error = <<"not found">>
                /\ counters'.failCount = counters.failCount + 1
                /\ counters'.successCount = counters.successCount
           /\ ~NotFoundClass(answer) =>
                /\ r.success = FALSE
                /\ r.error = answer
                /\ counters'.failCount = counters.failCount + 1
                /\ counters'.successCount = counters.successCount
     ]_vars

\* a disable answered 'Domain Not Found', reported as failed with 'not found'
C8_Witness ==
  /\ cmd = "manage" /\ opts.action = "disable"
  /\ Len(results) >= 1
  /\ lastCall = [op |-> Len(results), outcome |-> <<"Domain", "Not Found">>]
  /\ results[Len(results)].success = FALSE
  /\ results[Len(results)].error = <<"not found">>
  /\ counters.failCount >= 1

\* the profiles manageDomain is to act on
Targets == IF opts.profileIds = {} THEN Range(liveProfiles) ELSE Matched

\* C9: manageDomain calls the action once per target profile, in the order the
\* vendor lists them, never twice and whatever the earlier calls answered; it
\* returns one result per target with successCount + failCount = the number of
\* results; and with no target (no id matches, or no profile) it throws having
\* called no action.
C9_OneCallPerProfile ==
  (cmd = "manage" /\ thrown # ListFailedMsg) =>
    /\ (Targets = {}) <=> (pc = "failed")
    /\ pc = "failed" =>
         /\ thrown = IF opts.profileIds # {} THEN NoneFoundMsg ELSE NoProfilesMsg
         /\ calls.write = 0 /\ results = <<>>
    /\ pc \in {"apply", "done"} =>
         /\ Range(profiles) = Targets
         /\ \A j, k \in 1..Len(profiles) : j < k => profiles[j] < profiles[k]
         /\ Len(results) = opIdx - 1
         /\ calls.write = Len(results)
         /\ \A k \in 1..Len(profiles) :
              attemptsMade[k] = (IF k < opIdx THEN 1 ELSE 0)
         /\ \A k \in 1..Len(results) : results[k].profileId = profiles[k]
         /\ counters.successCount + counters.failCount = Len(results)
         /\ counters.successCount =
              Cardinality({k \in 1..Len(results) : results[k].success})
         /\ progress = results
    /\ pc = "apply" => opIdx <= Len(profiles)
    /\ pc = "done" => Len(results) = Len(profiles)

\* three profiles: the second call failed and the third was made and succeeded
C9_Witness ==
  /\ cmd = "manage" /\ pc = "done"
  /\ Len(results) = 3
  /\ results[1].success /\ ~results[2].success /\ results[3].success
  /\ counters = [successCount |-> 2, failCount |-> 1]

\* ---------------------------------------------------------------- C10
CopyEnded == cmd = "copy" /\ pc = "copyDone"

\* the vendor's answers to the calls of the given name, in order
AnswersTo(name) ==
  {copyLog[i].outcome : i \in {j \in 1..Len(copyLog) : copyLog[j].call = name}}

FetchFailed == copyLog # <<>> /\ copyLog[1].outcome # Ok
GateClosed == ~FetchFailed /\ validateApiSchema(source) # <<>> /\ ~force
CreateFailed == \E a \in AnswersTo("createProfile") : a # Ok

\* C10: copyProfile returns success=false exactly when the source fetch
\* failed, or schema warnings existed without force, or createProfile failed;
\* every other run returns success=true with newProfileId set, whatever the
\* rewrite copy and the verification did; newProfileId is never set on a
\* success=false result.
C10_SuccessIffNotTerminal ==
  CopyEnded =>
    /\ copyResult.success = FALSE <=> (FetchFailed \/ GateClosed \/ CreateFailed)
    /\ copyResult.success => copyResult.newProfileId # NoProfileId
    /\ ~copyResult.success => copyResult.newProfileId = NoProfileId

\* a run whose rewrite copy failed and whose verification found mismatches
\* still ended with success=true
C10_Witness ==
  /\ CopyEnded
  /\ copyResult.success
  /\ copyResult.newProfileId = NewProfileId
  /\ copyResult.verificationMismatches # <<>>
  /\ StepComplete("Copy rewrites", FALSE) \in Range(steps)
  /\ \E a \in AnswersTo("addRewrite") : a # Ok

\* ---------------------------------------------------------------- C11
\* the names of the calls copyProfile has issued
CallsIssued == {copyLog[i].call : i \in 1..Len(copyLog)}

SchemaChecked == cmd = "copy" /\ ~FetchFailed

\* C11: in every run where validateApiSchema reports a warning and force is
\* not set, no createProfile, putRewrites or addRewrite call is ever issued,
\* the run has ended with success=false and the result's schemaWarnings holds
\* the warnings; with force set the run goes on to the createProfile call.
C11_SchemaGate ==
  (SchemaChecked /\ validateApiSchema(source) # <<>>) =>
    /\ copyResult.schemaWarnings = validateApiSchema(source)
    /\ ~force =>
         /\ CallsIssued \cap {"createProfile", "putRewrites", "addRewrite"} = {}
         /\ pc = "copyDone"
         /\ copyResult.success = FALSE
         /\ copyResult.newProfileId = NoProfileId
    /\ force => (pc = "copyCreate" \/ "createProfile" \in CallsIssued)

\* an unforced run on a profile with unknown keys in two sections stopped
\* after its fetch
C11_Witness ==
  /\ CopyEnded
  /\ ~force
  /\ Len(validateApiSchema(source)) = 2
  /\ copyLog = <<Call("getProfile", Ok)>>
  /\ copyResult.schemaWarnings # <<>>

\* ---------------------------------------------------------------- C12
Reconstructed == cmd = "reconstructPayload" /\ pc = "done"

\* C12: the payload's top-level keys are among name, security, privacy,
\* parentalControl, denylist, allowlist and settings; it never holds id,
\* fingerprint or setup, nor recreation in parentalControl; a section key is
\* present only when the source has the section; an empty source yields
\* exactly {name: 'Cloned Profile (Copy)'}.
C12_PayloadKeys ==
  Reconstructed =>
    /\ DOMAIN payload \subseteq {"name"} \cup PayloadSections
    /\ "name" \in DOMAIN payload
    /\ DOMAIN payload \cap {"id", "fingerprint", "setup"} = {}
    /\ Has(payload, "parentalControl") => ~Has(payload["parentalControl"], "recreation")
    /\ \A k \in PayloadSections : Has(payload, k) => Has(sourceData, k)
    /\ DOMAIN sourceData = {} =>
         /\ DOMAIN payload = {"name"}
         /\ payload["name"] = <<"Cloned Profile", " (Copy)">>

\* a source with id, fingerprint, setup and a recreation schedule
C12_Witness ==
  /\ Reconstructed
  /\ {"id", "fingerprint", "setup", "parentalControl"} \subseteq DOMAIN sourceData
  /\ Has(sourceData["parentalControl"], "recreation")
  /\ Has(payload, "parentalControl")

\* ---------------------------------------------------------------- C13
\* out is the source's value of flag k when it gives one, else the default
KeepsOrDefaults(srcObj, out, k, default) ==
  /\ (Has(srcObj, k) /\ srcObj[k] = TRUE) => out = TRUE
  /\ (Has(srcObj, k) /\ srcObj[k] = FALSE) => out = FALSE
  /\ ~Has(srcObj, k) => out = default

\* the entries of outList are those of srcList, each with its active flag
\* kept or defaulted
EntriesKeepOrDefault(srcList, outList, default) ==
  /\ Len(outList) = Len(srcList)
  /\ \A i \in 1..Len(srcList) :
       /\ outList[i].id = srcList[i].id
       /\ KeepsOrDefaults(srcList[i], outList[i].active, "active", default)

\* C13: reconstructPayload applies defaults only to absent values: security
\* and privacy flags default to true, parental-control flags and service and
\* category active flags to false, denylist and allowlist active flags to
\* true; an explicit value is never replaced; the name is the source name
\* (or 'Cloned Profile' when there is none) followed by ' (Copy)'.
C13_DefaultsOnlyWhenAbsent ==
  Reconstructed =>
    /\ Has(sourceData, "security") =>
         \A k \in SecurityFlags :
           KeepsOrDefaults(sourceData["security"], payload["security"][k], k, TRUE)
    /\ Has(sourceData, "privacy") =>
         \A k \in PrivacyFlags :
           KeepsOrDefaults(sourceData["privacy"], payload["privacy"][k], k, TRUE)
    /\ Has(sourceData, "parentalControl") =>
         /\ \A k \in ParentalFlags :
              KeepsOrDefaults(sourceData["parentalControl"],
                              payload["parentalControl"][k], k, FALSE)
         /\ \A l \in {"services", "categories"} :
              Has(sourceData["parentalControl"], l) =>
                EntriesKeepOrDefault(sourceData["parentalControl"][l],
                                     payload["parentalControl"][l], FALSE)
    /\ \A l \in {"denylist", "allowlist"} :
         Has(sourceData, l) => EntriesKeepOrDefault(sourceData[l], payload[l], TRUE)
    /\ payload["name"] =
         (IF Has(sourceData, "name") /\ sourceData["name"] # <<>>
          THEN sourceData["name"] ELSE <<"Cloned Profile">>) \o <<" (Copy)">>

\* a security section with one flag explicitly false and another absent
C13_Witness ==
  /\ Reconstructed
  /\ Has(sourceData, "security")
  /\ Has(sourceData["security"], "csam") /\ sourceData["security"]["csam"] = FALSE
  /\ ~Has(sourceData["security"], "dga")
  /\ payload["security"]["csam"] = FALSE
  /\ payload["security"]["dga"] = TRUE

\* ---------------------------------------------------------------- C14
Validated == cmd = "validateApiSchema" /\ pc = "done"

\* the keys of the section at path that are in neither table
UnknownKeysAt(path) ==
  IF HasSection(source, path)
  THEN source[path] \ (KNOWN_FIELDS(path) \cup SKIPPED_FIELDS(path))
  ELSE {}

UnknownPairs == UNION {{<<path, k>> : k \in UnknownKeysAt(path)} : path \in PathSet}

\* the warnings that name key k of the section at path
WarningsNaming(path, k) ==
  {i \in 1..Len(validation) : validation[i].path = path /\ k \in validation[i].unknown}

\* C14 as stated: no warning for an object whose keys are all in the tables,
\* and exactly one warning for each out-of-allowlist key, so that the number
\* of warnings equals the number of out-of-allowlist keys.
C14_OneWarningPerKey ==
  Validated =>
    /\ UnknownPairs = {} => validation = <<>>
    /\ \A pk \in UnknownPairs : Cardinality(WarningsNaming(pk[1], pk[2])) = 1
    /\ Len(validation) = Cardinality(UnknownPairs)

\* C14 amended: no warning for an object whose keys are all in the tables,
\* and exactly one warning for each section holding out-of-allowlist keys,
\* naming all of them, so that the number of warnings equals the number of
\* such sections and each offending key is named by exactly one warning.
C14_OneWarningPerSection ==
  Validated =>
    /\ UnknownPairs = {} => validation = <<>>
    /\ \A pk \in UnknownPairs : Cardinality(WarningsNaming(pk[1], pk[2])) = 1
    /\ Len(validation) = Cardinality({path \in PathSet : UnknownKeysAt(path) # {}})
    /\ \A i \in 1..Len(validation) :
         validation[i].unknown = UnknownKeysAt(validation[i].path)

\* two unknown keys at root and one in settings.logs gave two warnings
C14_Witness ==
  /\ Validated
  /\ UnknownKeysAt("root") = {"mystery", "enigma"}
  /\ UnknownKeysAt("settings.logs") = {"mystery"}
  /\ Cardinality(UnknownPairs) = 3
  /\ Len(validation) = 2

\* ---------------------------------------------------------------- C15
\* copyRewrites has returned
RewritesDone ==
  cmd = "copy" /\ Len(copyLog) >= 3 /\ pc \in {"copyVerify", "copyDone"}

\* the vendor's answers to copyRewrites' PUT and POST calls, in order
WriteAnswers(name) ==
  SelectSeq([i \in 1..Len(copyLog) |-> copyLog[i]], LAMBDA e : e.call = name)

\* C15: a 404 on the fetch of the source's rewrites is a success with no
\* write; an empty list issues neither PUT nor POST; otherwise one PUT is
\* issued first, and no POST when it succeeds; when it fails, one POST per
\* source rewrite is issued, in order, whatever the earlier POSTs did, and
\* the count is the number of POSTs that succeeded; every rewrite sent has
\* only name and content; the run still ends with success=true.
C15_RewriteCopy ==
  RewritesDone =>
    LET fetched == copyLog[3].outcome
        puts == WriteAnswers("putRewrites")
        posts == WriteAnswers("addRewrite")
        n == Len(srcRewrites)
    IN /\ copyLog[3].call = "getRewrites"
       /\ Includes(fetched, <<"404">>) =>
            /\ rwSent = <<>> /\ puts = <<>> /\ posts = <<>>
            /\ StepComplete("Copy rewrites", TRUE) \in Range(steps)
       /\ (fetched = Ok /\ n = 0) => (rwSent = <<>> /\ puts = <<>> /\ posts = <<>>)
       /\ (fetched = Ok /\ n > 0) =>
            /\ Len(puts) = 1
            /\ copyLog[4].call = "putRewrites"
            /\ rwSent[1].method = "PUT"
            /\ Len(rwSent[1].rewrites) = n
            /\ puts[1].outcome = Ok => (posts = <<>> /\ Len(rwSent) = 1)
            /\ puts[1].outcome # Ok =>
                 /\ Len(posts) = n /\ Len(rwSent) = n + 1
                 /\ \A i \in 1..n :
                      /\ copyLog[4 + i].call = "addRewrite"
                      /\ rwSent[1 + i].method = "POST"
                      /\ Len(rwSent[1 + i].rewrites) = 1
                      /\ rwSent[1 + i].rewrites[1].name = srcRewrites[i].name
                      /\ rwSent[1 + i].rewrites[1].content = srcRewrites[i].content
                 /\ rwCount = Cardinality({i \in 1..n : posts[i].outcome = Ok})
       /\ \A j \in 1..Len(rwSent) : \A i \in 1..Len(rwSent[j].rewrites) :
            DOMAIN rwSent[j].rewrites[i] = {"name", "content"}
       /\ CopyEnded => copyResult.success

\* the PUT failed, the first POST failed, the second was made and succeeded
C15_Witness ==
  /\ CopyEnded
  /\ copyResult.success
  /\ Len(srcRewrites) = 2
  /\ WriteAnswers("putRewrites") # <<>>
  /\ Len(WriteAnswers("addRewrite")) = 2
  /\ WriteAnswers("addRewrite")[1].outcome # Ok
  /\ WriteAnswers("addRewrite")[2].outcome = Ok
  /\ rwCount = 1

\* --- C16
RowsCompared == cmd = "compareSettings" /\ pc = "done"

SectionOf(title) ==
  CASE title = "Security Settings" -> "security"
    [] title = "Privacy Settings" -> "privacy"
    [] title = "Parental Control Settings" -> "parentalControl"
    [] title = "General Settings" -> "settings"

\* the raw value of a row for the p-th profile
RawValue(p, row) ==
  LET field == Get(Get(snapshots[p], SectionOf(opts.section)), row.label[1])
  IN IF Len(row.label) = 1 THEN field ELSE Get(field, row.label[2])

SortedIds(val) == Sorted([i \in 1..Len(val.kv) |-> ItemId(val.kv[i].v)])

\* structural equality of two raw values: arrays by their sorted ids, objects
\* by their properties whatever the order these were inserted in
RECURSIVE StructurallyEqual(_, _)
StructurallyEqual(a, b) ==
  /\ a.t = b.t
  /\ CASE a.t = "arr" -> SortedIds(a) = SortedIds(b)
       [] a.t = "obj" -> /\ KeysOf(a) = KeysOf(b)
                         /\ \A key \in KeysOf(a) : StructurallyEqual(Get(a, key), Get(b, key))
       [] OTHER -> a.s = b.s

RowValuesEqual(row) ==
  \A p \in 1..Len(snapshots) : StructurallyEqual(RawValue(p, row), RawValue(1, row))

\* C16: for the flat-field and nested-field row generators and every set of
\* two or more snapshots, a row's hasDiff is false when and only when every
\* profile's raw value for that row is structurally equal, arrays being
\* compared by their sorted ids.
C16_HasDiffIffNotEqual ==
  RowsCompared =>
    \A i \in 1..Len(rows) : (rows[i].hasDiff = FALSE) <=> RowValuesEqual(rows[i])

\* --- C17
TablesGenerated == cmd = "generateDiffTables" /\ pc = "done"

\* the full, unfiltered row set of a table and the rows of it that differ
FullRows(table) == TableRows(snapshots, table.title)
DifferingRows(title) == SelectSeq(TableRows(snapshots, title), HasDiff)

\* C17: every table's diffCount is the number of differing rows of the full
\* row set whether or not diffOnly is set; with diffOnly every row shown
\* differs and a table with no differing row is omitted; without diffOnly the
\* table holds the full row set; and the total and differing counts reported
\* for a table are those of the full row set even when rows are filtered.
C17_CountsOverFullRowSet ==
  TablesGenerated =>
    /\ \A i \in 1..Len(tables) :
         /\ tables[i].diffCount = Len(DifferingRows(tables[i].title))
         /\ opts.diffOnly => \A n \in 1..Len(tables[i].rows) : tables[i].rows[n].hasDiff
         /\ ~opts.diffOnly => tables[i].rows = FullRows(tables[i])
         /\ reportedCounts(tables[i]) # <<>> =>
              reportedCounts(tables[i])
                = <<Len(FullRows(tables[i])), Len(DifferingRows(tables[i].title))>>
    /\ opts.diffOnly =>
         [i \in 1..Len(tables) |-> tables[i].title]
           = SelectSeq(TitlesOf(opts.section), LAMBDA title : DifferingRows(title) # <<>>)

\* --- C18
ListsCompared == TablesGenerated /\ opts.section = "lists"

ListOf(title) == IF title = "Denylist" THEN "denylist" ELSE "allowlist"

\* the domains of the compared profiles' lists, and a profile's flag for one
UnionOfDomains(title) ==
  UNION {KeysOf(Get(snapshots[p], ListOf(title))) : p \in 1..Len(snapshots)}
Holding(p, title, domain) == Get(Get(snapshots[p], ListOf(title)), domain)

ExpectedCell(p, title, domain) ==
  IF domain \notin KeysOf(Get(snapshots[p], ListOf(title))) THEN "-"
  ELSE IF Holding(p, title, domain) = Bool(TRUE) THEN "check" ELSE "cross"

ExpectedDiff(title, domain) ==
  \/ \E p \in 1..Len(snapshots) : domain \notin KeysOf(Get(snapshots[p], ListOf(title)))
  \/ \E p, q \in 1..Len(snapshots) : Holding(p, title, domain) # Holding(q, title, domain)

\* the rows of a list as the comparison must build them, whatever the order
DomainRowsOk(title, tableRows) ==
  /\ {tableRows[n].label : n \in 1..Len(tableRows)} = {<<d>> : d \in UnionOfDomains(title)}
  /\ Len(tableRows) = Cardinality(UnionOfDomains(title))
  /\ \A n \in 1..Len(tableRows) :
       /\ tableRows[n].values
            = [p \in 1..Len(snapshots) |-> ExpectedCell(p, title, tableRows[n].label[1])]
       /\ tableRows[n].hasDiff = ExpectedDiff(title, tableRows[n].label[1])

SameList(title) ==
  \A p \in 1..Len(snapshots), d \in UnionOfDomains(title) :
    Holding(p, title, d) = Holding(1, title, d)

TableOf(title) == SelectSeq(tables, LAMBDA table : table.title = title)

Exited == exitCode # NotExited

\* C19: each of the CLI commands manage, sync, diff and copy ends with a
\* non-zero exit code whenever a failure was recorded in its run: manage when
\* failCount > 0, sync when addFail + updateFail > 0, copy when the result's
\* success is false, and any of them when the core operation throws.
C19_NonZeroExitOnFailure ==
  Exited =>
    /\ thrown # NoError => exitCode # 0
    /\ cmd = "manage" /\ thrown = NoError /\ counters.failCount > 0 => exitCode # 0
    /\ cmd = "sync" /\ counters.addFail + counters.updateFail > 0 => exitCode # 0
    /\ cmd = "copy" /\ ~copyResult.success => exitCode # 0

\* --- C20
\* the fetch loop of a sync is over and a profile's fetch failed in it
SyncFetchFailed ==
  /\ cmd = "sync"
  /\ pc \notin {"idle", "fetch"}
  /\ Len(allData) < fetchIdx - 1

\* C20: if the fetch of any resolved profile's data fails during analyzeSync,
\* the whole sync aborts with an error: no analysis is returned, no canonical
\* state is computed from the remaining profiles and no add or update
\* operation is executed.
C20_FetchFailureAborts ==
  SyncFetchFailed =>
    /\ pc = "failed"
    /\ thrown # NoError
    /\ analysis = NoAnalysis
    /\ calls.write = 0

\* --- C21
\* a step that makes a remote write call of executeSync after an earlier one
LaterWrite == pc = "exec" /\ calls.write > 0 /\ calls'.write = calls.write + 1

\* a step that makes a profile fetch in a fetch loop
ProfileFetch == pc = "fetch" /\ calls'.fetch = calls.fetch + 1

\* C21: in executeSync a delay pause always occurs between the remote call
\* made for one operation and the next remote call (a retry or the following
\* operation's call), whatever the outcome of the first call; and in the fetch
\* loops of analyzeSync and diffProfiles a pause precedes every profile fetch.
C21_PauseBetweenCalls ==
  [][(LaterWrite => paused) /\ (ProfileFetch => paused)]_vars

\* --- C22
\* the position of a profile in allData (profile insertion order)
PositionOf(profileId) == CHOOSE k \in 1..Len(allData) : allData[k].id = profileId

\* ops is in ascending order of domain id, and within one domain in profile
\* insertion order
SortedByDomainThenProfile(ops) ==
  \A i, j \in 1..Len(ops) :
    i < j =>
      \/ ops[i].domain < ops[j].domain
      \/ /\ ops[i].domain = ops[j].domain
         /\ PositionOf(ops[i].profileId) < PositionOf(ops[j].profileId)

\* C22: the operations planned for a list are emitted by ascending sorted
\* domain id first and within one domain by profile insertion order,
\* independently of the order in which the domains appear in the fetched
\* profiles' lists.
C22_SortedOperationOrder ==
  Analysed =>
    \A lt \in ListTypeSet :
      /\ SortedByDomainThenProfile(analysis[lt].toAdd)
      /\ SortedByDomainThenProfile(analysis[lt].toUpdate)

\* --- C23
ResponseParsed == cmd = "parseApiResponse" /\ pc = "done"

\* the errors array of the response's body, empty when the body has none
BodyErrors ==
  IF response.text.valid /\ ~response.text.empty
       /\ Get(response.text.json, "errors").t = "arr"
  THEN Get(response.text.json, "errors").kv
  ELSE <<>>

\* the body as the caller receives it
BodyData == IF response.text.empty THEN Obj(<<>>) ELSE response.text.json

\* the message of a synthesized failure: the first error's message, else its
\* code, else 'Request failed'
ExpectedMessage ==
  LET Field(key) == IF BodyErrors = <<>> THEN Undef ELSE Get(BodyErrors[1].v, key)
  IN IF Field("message").t = "str" /\ Field("message").s # "" THEN Field("message").s
     ELSE IF Field("code").t = "str" /\ Field("code").s # "" THEN Field("code").s
     ELSE "Request failed"

MustFail == ~ResponseOk(response.status) \/ BodyErrors # <<>>

ParentalVerified == cmd = "verifyClone" /\ pc = "done"

\* a profile's services or categories as an id-to-active map, active
\* defaulting to false
ActiveMapOf(profile, field) ==
  LET items == ItemsOf(Get(profile, "parentalControl"), field)
      Last(id) == CHOOSE i \in 1..Len(items) :
                    /\ Get(items[i].v, "id").s = id
                    /\ \A j \in (i + 1)..Len(items) : Get(items[j].v, "id").s # id
  IN {<<id, Get(items[Last(id)].v, "active") = Bool(TRUE)>> :
        id \in {Get(items[i].v, "id").s : i \in 1..Len(items)}}

Reported(message) == \E i \in 1..Len(parentalDiffs) : parentalDiffs[i] = message

\* C24: a 'Parental Services mismatch' (resp. 'Parental Categories mismatch')
\* is reported if and only if the re-fetched source and destination differ as
\* id-to-active maps, active defaulting to false; the same services with the
\* same flags produce no mismatch whatever the order each profile lists them in.
C24_MismatchIffMapsDiffer ==
  ParentalVerified =>
    /\ Reported("Parental Services mismatch")
         <=> ActiveMapOf(refetched.src, "services") # ActiveMapOf(refetched.dst, "services")
    /\ Reported("Parental Categories mismatch")
         <=> ActiveMapOf(refetched.src, "categories") # ActiveMapOf(refetched.dst, "categories")

\* --- C25

\* the key is in the known-field table of its section; settings.blockPage
\* has no table, its declared key stands for one
KnownField(path, k) ==
  IF path = "settings.blockPage" THEN k \in {"enabled"} ELSE k \in KNOWN_FIELDS(path)

\* C25: no field of the fetched source profile that is absent from the
\* known-field and skipped-field tables is written into the creation payload
\* without validateApiSchema having reported a warning for it: every key path
\* reconstructPayload copies, the keys nested under settings.logs,
\* settings.blockPage and settings.performance included, is a known field or
\* is named in a schema warning.
C25_NoSilentUnknownWrite ==
  cmd = "reconstructPayload" =>
    \A field \in writtenKeys :
      \/ KnownField(field[1], field[2])
      \/ \E i \in 1..Len(validation) :
           validation[i].path = field[1] /\ field[2] \in validation[i].unknown

\* --- C26
\* the latest turn of the domain manager's loop got the HTTP status
AnsweredWith(status) ==
  cmd = "manage" /\ results # <<>> /\ response.status = status

LatestResult == results[Len(results)]

\* C26: end to end through the shipped HTTP adapter, when the vendor answers
\* a removeDomain request with HTTP status 404, manageDomain reports that
\* profile as success with the 'not found (already removed)' note for every
\* response body (empty, an errors entry with only a code, an errors entry
\* with a message); and when it answers an enable or disable request with
\* HTTP 404 the profile is reported with the error 'not found'.
C26_NotFoundThroughAdapter ==
  AnsweredWith(404) =>
    /\ opts.action = "remove" =>
         LatestResult.success /\ LatestResult.error = AlreadyRemovedMsg
    /\ opts.action \in {"enable", "disable"} => LatestResult.error = NotFoundMsg

\* --- C27
NestedFields == {"logs", "blockPage", "performance"}

\* the p-th profile's value of a nested settings field
NestedOf(p, field) == Get(Get(snapshots[p], "settings"), field)

\* two of the compared profiles differ in a subfield of a nested field, a
\* subfield only one of them has included
SubfieldDiffers ==
  \E p \in 1..Len(snapshots), q \in 1..Len(snapshots), field \in NestedFields :
    \E subfield \in KeysOf(NestedOf(p, field)) \cup KeysOf(NestedOf(q, field)) :
      ~StructurallyEqual(Get(NestedOf(p, field), subfield),
                         Get(NestedOf(q, field), subfield))

SettingsCompared == TablesGenerated /\ opts.section \in {"settings", "all"}

\* C27: in the settings diff, whenever two compared profiles differ in the
\* value of some subfield of logs, blockPage or performance (a subfield only
\* one of them has included), the 'General Settings' table contains at least
\* one row with hasDiff true, whichever of the profiles comes first.
C27_NestedDifferenceShown ==
  (SettingsCompared /\ SubfieldDiffers) =>
    \E i \in 1..Len(tables) :
      /\ tables[i].title = "General Settings"
      /\ \E n \in 1..Len(tables[i].rows) : tables[i].rows[n].hasDiff

\* --- C28
StepOrder == <<"Fetch source profile", "Create new profile", "Copy rewrites", "Verify clone">>

\* the positions of the step callbacks of a kind in the callback log
StartsAt == {i \in 1..Len(steps) : steps[i].ev = "start"}
CompletesAt == {i \in 1..Len(steps) : steps[i].ev = "complete"}

\* the onStepComplete at i closes the latest onStepStart, which is for its step
ClosesLatestStart(i) ==
  \E j \in StartsAt :
    /\ j < i
    /\ steps[j].step = steps[i].step
    /\ \A k \in StartsAt : ~(j < k /\ k < i)
    /\ \A k \in CompletesAt : ~(j < k /\ k < i)

\* the steps started, in the order they were started
StartedSteps == [n \in 1..Cardinality(StartsAt) |->
                   steps[CHOOSE i \in StartsAt : Cardinality({j \in StartsAt : j <= i}) = n].step]

CopyReturned == cmd = "copy" /\ pc = "copyDone"

\* C28: in every run of copyProfile the step callbacks are well paired and
\* ordered: every onStepComplete is preceded by the onStepStart of the same
\* step with no other step started in between, every started step is
\* completed exactly once, the steps occur in the order Fetch source profile,
\* Create new profile, Copy rewrites, Verify clone, and no step is started
\* after a terminal failure.
C28_StepCallbacksPaired ==
  /\ \A i \in CompletesAt : ClosesLatestStart(i)
  /\ \A j \in StartsAt : Cardinality({i \in CompletesAt : i > j /\ steps[i].step = steps[j].step}) <= 1
  /\ CopyReturned =>
       \A j \in StartsAt : \E i \in CompletesAt : i > j /\ steps[i].step = steps[j].step
  /\ StartedSteps = SubSeq(StepOrder, 1, Cardinality(StartsAt))
  /\ \A i \in CompletesAt :
       (steps[i].step \in {"Fetch source profile", "Create new profile", "Schema validation"}
          /\ ~steps[i].ok) => \A j \in StartsAt : j < i

\* --- C29
FormApplied == cmd = "dashboardManage" /\ manageForm.results # <<>>

LatestFormResult == manageForm.results[Len(manageForm.results)]

\* C29: the dashboard's manage-domain handler and the core manageDomain
\* agree: for every action, selected profile and remote outcome,
\* ManageDomain.performAction reports the same per-profile success or failure
\* as the core manageDomain does for that outcome; in particular a not-found
\* response to a remove is reported as a success by both.
C29_DashboardAgreesWithCore ==
  FormApplied =>
    LatestFormResult.success = ActionResult(opts.action, lastCall.outcome).success

\* --- C30
LoginPending == \E i \in 1..Len(inflight) : inflight[i].kind = "validate"

\* logout() has run, or nobody logged in yet, and login() was not called since
LoggedOut == auth.apiKey = NoKey /\ ~LoginPending

\* C30: in the dashboard's AuthProvider, under every interleaving of logout()
\* with in-flight profile fetches (started by login, by the apiKey effect or
\* by refreshProfiles), once logout() has run the profiles state is empty and
\* stays empty until login() is called again; and a profile list fetched with
\* an API key that is no longer the current one is never stored in the
\* profiles state.
C30_NoProfilesAfterLogout ==
  /\ LoggedOut => auth.profiles = <<>>
  /\ auth.profiles # <<>> => auth.profiles = AccountProfiles(auth.apiKey)

====
